---- MODULE Spec2Model ----
(***************************************************************************)
(* Measles situation report: the epidemiological aggregation layer.        *)
(*                                                                         *)
(* The warehouse fact table is the variable events; every fetcher of       *)
(* data_fetcher.py is an action that evaluates its SQL text over events    *)
(* and leaves the table it returns in result.  get_dynamic_parameters of   *)
(* main_report.py is an action over the URL query parameters.              *)
(*                                                                         *)
(* SQL values: a nullable value is a tuple, <<>> for NULL / None and <<v>> *)
(* for the value v.  Decimals are kept as scaled integers: a percent       *)
(* change in tenths, a proportion in hundredths.  Dates are day numbers,   *)
(* day 0 being 1 January 2022.                                             *)
(***************************************************************************)
EXTENDS Integers, Sequences, FiniteSets, TLC

VARIABLES
    events,          \* dwh.fact_eidsr_event_data: the measles rows, one per event
    call,            \* the fetcher call that produced result, <<>> before any call
    result,          \* the value that call returned
    query_params,    \* st.query_params of the request
    current_year,    \* datetime.now().year of the request
    params,          \* the dict returned by get_dynamic_parameters, <<>> before
    date_conditions, \* the time constraints the last parameterized fetcher built
    attributes,      \* dwh.fact_eidsr_tracked_entity_attributes
    cache_data,      \* the entries of st.cache_data, by cached function
    clock            \* the time, in seconds since the page server started

vars == <<events, call, result, query_params, current_year, params, date_conditions,
          attributes, cache_data, clock>>

-----------------------------------------------------------------------------
(* Nullable values *)

Null == <<>>
Val(v) == <<v>>
IsNull(x) == x = <<>>
Get(x) == x[1]

RECURSIVE SumValues(_)
\* SUM(column) of a relation, given as the set of <<row, value>> pairs.
SumValues(S) ==
    IF S = {} THEN 0
    ELSE LET p == CHOOSE x \in S : TRUE
         IN p[2] + SumValues(S \ {p})

Abs(n) == IF n < 0 THEN 0 - n ELSE n

-----------------------------------------------------------------------------
(* Calendar: EXTRACT(YEAR / MONTH / WEEK FROM event_date), DATE_TRUNC('week') *)

IsLeap(y) == y % 4 = 0 /\ (y % 100 # 0 \/ y % 400 = 0)
DaysInYear(y) == IF IsLeap(y) THEN 366 ELSE 365

RECURSIVE YearStart(_)
\* Day number of 1 January of year y.
YearStart(y) == IF y <= 2022 THEN 0 ELSE YearStart(y - 1) + DaysInYear(y - 1)

\* EXTRACT(YEAR FROM d): the calendar year of the date.
ExtractYear(d) ==
    CHOOSE y \in 2022..2030 : YearStart(y) <= d /\ d < YearStart(y + 1)

DayOfYear(d) == d - YearStart(ExtractYear(d)) + 1

\* ISO weekday, Monday = 1 .. Sunday = 7; day 0 is a Saturday.
IsoWeekday(d) == ((d + 5) % 7) + 1

\* Number of ISO weeks of year y: 53 when 1 January is a Thursday, or a
\* Wednesday in a leap year.
WeeksInYear(y) ==
    LET jan1 == IsoWeekday(YearStart(y))
    IN IF jan1 = 4 \/ (jan1 = 3 /\ IsLeap(y)) THEN 53 ELSE 52

\* EXTRACT(WEEK FROM d): the ISO 8601 week number, which for the first and
\* last days of a calendar year may be a week of the neighbouring ISO year.
ExtractWeek(d) ==
    LET y == ExtractYear(d)
        w == (DayOfYear(d) - IsoWeekday(d) + 10) \div 7
    IN IF w < 1 THEN WeeksInYear(y - 1)
       ELSE IF w = 53 /\ WeeksInYear(y) = 52 THEN 1
       ELSE w

RECURSIVE MonthFrom(_, _, _)
MonthFrom(y, doy, m) ==
    LET len == IF m = 2 THEN (IF IsLeap(y) THEN 29 ELSE 28)
               ELSE IF m \in {4, 6, 9, 11} THEN 30 ELSE 31
    IN IF doy <= len THEN m ELSE MonthFrom(y, doy - len, m + 1)

\* EXTRACT(MONTH FROM d)
ExtractMonth(d) == MonthFrom(ExtractYear(d), DayOfYear(d), 1)

\* DATE_TRUNC('week', d): the Monday of the date's week.
DateTruncWeek(d) == d - (IsoWeekday(d) - 1)

-----------------------------------------------------------------------------
(* Rounding: ROUND(numeric, k) of PostgreSQL rounds half away from zero.   *)

\* n / d rounded to the nearest integer, ties away from zero (d > 0).
RoundDiv(n, d) ==
    IF n >= 0 THEN (2 * n + d) \div (2 * d)
    ELSE 0 - ((2 * (0 - n) + d) \div (2 * d))

\* PercentChange gone wrong: a zero or missing denominator reported as 0 percent.
PercentChangeZero(cur, prev) ==
    IF IsNull(prev) \/ Get(prev) = 0 THEN Val(0)
    ELSE Val(RoundDiv((cur - Get(prev)) * 1000, Get(prev)))

\* CASE WHEN prev IS NULL OR prev = 0 THEN NULL
\*      ELSE ROUND(((cur - prev)::DECIMAL / prev) * 100, 1) END, in tenths.
PercentChange(cur, prev) ==
    IF IsNull(prev) \/ Get(prev) = 0 THEN Null
    ELSE Val(RoundDiv((cur - Get(prev)) * 1000, Get(prev)))

-----------------------------------------------------------------------------
(* The warehouse *)

\* LIMIT 10 of get_measles_weekly_data and LIMIT 12 of
\* get_measles_top_10_districts.
WeeklyLimit == 10
TopDistrictsLimit == 12

\* Candidate event dates of the weekly scenarios: NumWeekDates consecutive
\* Wednesdays from 20 December 2023 (ISO weeks 51, 52 of 2023, then 1, 2, ...
\* of 2024), and 30 December 2024, a Monday of ISO week 1 of 2025.
FirstWeekDate == 718
NumWeekDates == 13
YearEndDate == 1094
WeekDate(i) == FirstWeekDate + 7 * (i - 1)
WeekDates == {WeekDate(i) : i \in 1..NumWeekDates} \cup {YearEndDate}

\* Events the weekly scenarios add to the seeded history.
MaxExtra == 2

\* dwh.dim_eidsr_org_hierarchy.  Keys 1..NumDistricts are one org unit in each
\* real district; the others are a second org unit of the first district, the
\* sentinel districts, a row without district name, and a key without row.
NumDistricts == TopDistrictsLimit + 1
DistrictNames ==
    <<"Abim", "Adjumani", "Agago", "Amuria", "Arua", "Bugiri", "Gulu", "Hoima",
      "Jinja", "Kabale", "Kampala", "Lira", "Masaka", "Mbale", "Soroti">>
SecondUnitKey == NumDistricts + 1
UnknownKey == NumDistricts + 2
TestDistrictKey == NumDistricts + 3
UnknownDistrictKey == NumDistricts + 4
NullDistrictKey == NumDistricts + 5
DanglingKey == NumDistricts + 6
OrgKeys == 1..DanglingKey

dim_eidsr_org_hierarchy ==
    {[dim_org_hierarchy_key |-> k, district_name |-> Val(<<DistrictNames[k]>>)] :
        k \in 1..NumDistricts}
    \cup {[dim_org_hierarchy_key |-> SecondUnitKey,
           district_name |-> Val(<<DistrictNames[1]>>)],
          [dim_org_hierarchy_key |-> UnknownKey, district_name |-> Val(<<"Unknown">>)],
          [dim_org_hierarchy_key |-> TestDistrictKey,
           district_name |-> Val(<<"1", "Test", "District">>)],
          [dim_org_hierarchy_key |-> UnknownDistrictKey,
           district_name |-> Val(<<"Unknown", "District">>)],
          [dim_org_hierarchy_key |-> NullDistrictKey, district_name |-> Null]}

\* One measles row of the fact table.  Event ids are opaque and unique; the
\* model names an event by its date, its org unit and an index, positive for
\* an event added to the seeded history.
EventRow(d, k, n) ==
    [event_id |-> <<d, k, n>>, event_date |-> d, dim_org_hierarchy_key |-> k]

ExtraEvents == {e \in events : e.event_id[3] > 0}

\* The upstream ETL adds one event.
Ingest(d, k) ==
    /\ events' = events \cup
         {EventRow(d, k, Cardinality({e \in events :
                            e.event_date = d /\ e.dim_org_hierarchy_key = k /\
                            e.event_id[3] > 0}) + 1)}
    /\ UNCHANGED <<cache_data, clock, attributes, call, result, query_params, current_year, params, date_conditions>>

-----------------------------------------------------------------------------
(* get_measles_weekly_data *)

\* The calendar fields of the candidate dates, computed once.
Calendar ==
    [d \in WeekDates |->
        [year |-> ExtractYear(d), week |-> ExtractWeek(d),
         month |-> ExtractMonth(d), week_starting |-> DateTruncWeek(d)]]

\* SELECT DISTINCT event_id, event_date FROM the measles rows.
measles_event_dates(ev) ==
    {[event_id |-> e.event_id, event_date |-> e.event_date] : e \in ev}

\* GROUP BY EXTRACT(YEAR ...), EXTRACT(WEEK ...) with COUNT(DISTINCT event_id).
WeeklyCounts(me) ==
    {[year |-> b[1], epi_week |-> b[2],
      weekly_cases |-> Cardinality({e.event_id : e \in
          {x \in me : Calendar[x.event_date].year = b[1] /\
                      Calendar[x.event_date].week = b[2]}})] :
        b \in {<<Calendar[e.event_date].year, Calendar[e.event_date].week>> : e \in me}}

\* a sorts before b under ORDER BY year DESC, epi_week DESC.
Later(a, b) == a.year > b.year \/ (a.year = b.year /\ a.epi_week > b.epi_week)

\* SELECT *, ROW_NUMBER() OVER (ORDER BY year DESC, epi_week DESC) AS rn
WithRowNumber(S) ==
    {[year |-> r.year, epi_week |-> r.epi_week, weekly_cases |-> r.weekly_cases,
      rn |-> Cardinality({s \in S : Later(s, r)}) + 1] : r \in S}

\* ORDER BY year DESC, epi_week DESC LIMIT n, with the row number.
TopRows(S, n) == {r \in WithRowNumber(S) : r.rn <= n}

\* LAG(weekly_cases) OVER (ORDER BY year DESC, epi_week DESC): the value of the
\* row that precedes r in that order, NULL for the first row.
LagWeeklyCases(r, S) ==
    IF r.rn = 1 THEN Null
    ELSE Val((CHOOSE s \in S : s.rn = r.rn - 1).weekly_cases)

all_weekly_data(ev) == WeeklyCounts(measles_event_dates(ev))

ordered_all_data(awd) == TopRows(awd, WeeklyLimit)

\* The running total gone wrong: summed over the returned rows only.
CumulativeOverReturned(oad, awd) ==
    SumValues({<<a, a.weekly_cases>> : a \in
        {x \in ordered_all_data(awd) : ~Later(x, oad)}})

\* The running total gone wrong: it restarts with every calendar year.
CumulativeWithinYear(oad, awd) ==
    SumValues({<<a, a.weekly_cases>> : a \in
        {x \in awd : x.year = oad.year /\ x.epi_week <= oad.epi_week}})

\* SELECT SUM(awd2.weekly_cases) FROM all_weekly_data awd2 WHERE awd2.year <
\* oad.year OR (awd2.year = oad.year AND awd2.epi_week <= oad.epi_week)
CumulativeFromBeginning(oad, awd) ==
    SumValues({<<a, a.weekly_cases>> : a \in
        {x \in awd :
            x.year < oad.year \/ (x.year = oad.year /\ x.epi_week <= oad.epi_week)}})

cumulative_all_data(ev) ==
    LET awd == all_weekly_data(ev)
        oad == ordered_all_data(awd)
    IN {[year |-> r.year, epi_week |-> r.epi_week, weekly_cases |-> r.weekly_cases,
         rn |-> r.rn,
         cumulative_cases |-> CumulativeFromBeginning(r, awd),
         prev_week_cases |-> LagWeeklyCases(r, oad)] : r \in oad}

\* weekly_data and ordered_data of the single-year query: the buckets of the
\* target year, ORDER BY year DESC, epi_week DESC LIMIT 10, with the row number.
weekly_data(ev, year) ==
    TopRows(WeeklyCounts({e \in measles_event_dates(ev) :
                Calendar[e.event_date].year = year}), WeeklyLimit)

\* SUM(weekly_cases) OVER (ORDER BY year, epi_week ROWS UNBOUNDED PRECEDING) and
\* LAG(weekly_cases) OVER (ORDER BY year DESC, epi_week DESC), over ordered_data.
cumulative_data(ev, year) ==
    LET od == weekly_data(ev, year)
    IN {[year |-> r.year, epi_week |-> r.epi_week, weekly_cases |-> r.weekly_cases,
         rn |-> r.rn,
         cumulative_cases |-> SumValues({<<a, a.weekly_cases>> : a \in
             {x \in od : ~Later(x, r)}}),
         prev_week_cases |-> LagWeeklyCases(r, od)] : r \in od}

\* The final SELECT ... ORDER BY year DESC, epi_week DESC of both queries.
WeeklySelect(C) ==
    [i \in 1..Cardinality(C) |->
        LET r == CHOOSE x \in C : x.rn = i
        IN [Year |-> r.year, EpiWeek |-> r.epi_week,
            WeeklyConfirmedCases |-> r.weekly_cases,
            CumulativeConfirmedCases |-> r.cumulative_cases,
            PercentChange |-> PercentChange(r.weekly_cases, r.prev_week_cases)]]

get_measles_weekly_data(ev, year) ==
    IF IsNull(year) THEN WeeklySelect(cumulative_all_data(ev))
    ELSE WeeklySelect(cumulative_data(ev, Get(year)))

\* Years a caller may ask for.
QueryYears == {2023, 2024}
YearArgs == {Null} \cup {Val(y) : y \in QueryYears}

GetMeaslesWeeklyData(year) ==
    /\ result' = get_measles_weekly_data(events, year)
    /\ call' = Val([fn |-> "get_measles_weekly_data", year |-> year])
    /\ UNCHANGED <<cache_data, clock, attributes, events, query_params, current_year, params, date_conditions>>

-----------------------------------------------------------------------------
(* The weekly scenarios: a seeded history on a run of consecutive candidate *)
(* dates, 1, 2 or 3 events on a date, then up to MaxExtra further events    *)
(* and one call of the fetcher.                                             *)

SeedCount(i) == 1 + (i % 3)

InitWeekly ==
    /\ cache_data = {}
    /\ clock = 0
    /\ \E s \in 1..(NumWeekDates + 1) : \E t \in (s - 1)..NumWeekDates :
          events = UNION {{EventRow(WeekDate(i), 1, 0 - n) :
                                n \in 0..(SeedCount(i) - 1)} : i \in s..t}
    /\ call = Null
    /\ result = Null
    /\ query_params = Null
    /\ current_year = 2026
    /\ params = Null
    /\ date_conditions = Null
    /\ attributes = {}

IngestWeekly ==
    /\ IsNull(call)
    /\ Cardinality(ExtraEvents) < MaxExtra
    /\ \E d \in WeekDates : Ingest(d, 1)

FetchWeekly == IsNull(call) /\ \E year \in YearArgs : GetMeaslesWeeklyData(year)

NextWeekly == IngestWeekly \/ FetchWeekly

SpecWeekly == InitWeekly /\ [][NextWeekly]_vars

-----------------------------------------------------------------------------
(* District aggregates *)

\* The district names of the hierarchy rows an org unit key joins to: one
\* (possibly NULL) name, or none for a key without row.
OrgUnitDistricts ==
    [k \in OrgKeys |->
        {h.district_name : h \in
            {x \in dim_eidsr_org_hierarchy : x.dim_org_hierarchy_key = k}}]

\* ORDER BY district_name, the collation order of the names of the hierarchy.
NamesInOrder ==
    <<<<"1", "Test", "District">>>>
    \o [i \in 1..Len(DistrictNames) |-> <<DistrictNames[i]>>]
    \o <<<<"Unknown">>, <<"Unknown", "District">>>>
NameRank == [n \in {NamesInOrder[i] : i \in 1..Len(NamesInOrder)} |->
                CHOOSE i \in 1..Len(NamesInOrder) : NamesInOrder[i] = n]

\* name LIKE '%pattern%', on whole words.
Like(name, pattern) ==
    \E i \in 1..(Len(name) - Len(pattern) + 1) :
        SubSeq(name, i, i + Len(pattern) - 1) = pattern

\* Rows that are equal under a query's ORDER BY come out in an order SQL leaves
\* open; the model lets them come out in either of two scan orders.
ScanOrders == {"forward", "backward"}
ScanBefore(a, b, scan) ==
    IF scan = "forward" THEN NameRank[a] < NameRank[b] ELSE NameRank[a] > NameRank[b]

\* Python truthiness of an optional int and of an optional string.
TruthyInt(x) == ~IsNull(x) /\ Get(x) # 0
TruthyStr(x) == ~IsNull(x) /\ Get(x) # <<>>

(* get_measles_top_10_districts *)

top_districts_measles_events(ev, year) ==
    {[event_id |-> e.event_id, event_date |-> e.event_date,
      dim_org_hierarchy_key |-> e.dim_org_hierarchy_key,
      epi_week |-> Calendar[e.event_date].week,
      year |-> Calendar[e.event_date].year] :
        e \in {x \in ev : IsNull(year) \/ Calendar[x.event_date].year = Get(year)}}

SetMax(S) == CHOOSE m \in S : \A x \in S : x <= m

\* SELECT MAX(year) as max_year, MAX(epi_week) as max_week FROM measles_events
latest_epi_week(me) ==
    [max_year |-> SetMax({e.year : e \in me}),
     max_week |-> SetMax({e.epi_week : e \in me})]

previous_epi_week(lew) ==
    [prev_week |-> IF lew.max_week = 1 THEN 52 ELSE lew.max_week - 1,
     prev_year |-> IF lew.max_week = 1 THEN lew.max_year - 1 ELSE lew.max_year]

\* measles_events LEFT JOIN dim_eidsr_org_hierarchy WHERE doh.district_name IS
\* NOT NULL AND doh.district_name != 'Unknown'
district_data(me) ==
    UNION {{[district_name |-> Get(n), event_id |-> e.event_id,
             epi_week |-> e.epi_week, year |-> e.year] :
                n \in {x \in OrgUnitDistricts[e.dim_org_hierarchy_key] :
                          ~IsNull(x) /\ Get(x) # <<"Unknown">>}} : e \in me}

district_summary(dd, lew, pew) ==
    {[district_name |-> n,
      total_cases |-> Cardinality({r.event_id : r \in {x \in dd : x.district_name = n}}),
      cases_last_epiweek |-> Cardinality({r.event_id : r \in
          {x \in dd : x.district_name = n /\ x.year = lew.max_year /\
                      x.epi_week = lew.max_week}}),
      cases_prev_epiweek |-> Cardinality({r.event_id : r \in
          {x \in dd : x.district_name = n /\ x.year = pew.prev_year /\
                      x.epi_week = pew.prev_week}})] :
        n \in {r.district_name : r \in dd}}

\* The ranking gone wrong: the latest epi-week is not consulted on a tie.
RankBeforeTotalOnly(a, b, scan) ==
    \/ a.total_cases > b.total_cases
    \/ /\ a.total_cases = b.total_cases
       /\ ScanBefore(a.district_name, b.district_name, scan)

\* a comes before b under ORDER BY total_cases DESC, cases_last_epiweek DESC.
RankBefore(a, b, scan) ==
    \/ a.total_cases > b.total_cases
    \/ /\ a.total_cases = b.total_cases
       /\ \/ a.cases_last_epiweek > b.cases_last_epiweek
          \/ /\ a.cases_last_epiweek = b.cases_last_epiweek
             /\ ScanBefore(a.district_name, b.district_name, scan)

\* WHERE total_cases > 0 AND district_name NOT LIKE '%Test District%' AND
\* district_name != 'Unknown District' ORDER BY ... LIMIT 12, and the columns
\* of the final SELECT that count cases.
TopDistrictsSelect(ds, scan) ==
    LET kept == {r \in ds : /\ r.total_cases > 0
                            /\ ~Like(r.district_name, <<"Test", "District">>)
                            /\ r.district_name # <<"Unknown", "District">>}
        pos == [r \in kept |-> Cardinality({x \in kept : RankBefore(x, r, scan)}) + 1]
        shown == {r \in kept : pos[r] <= TopDistrictsLimit}
    IN [i \in 1..Cardinality(shown) |->
          LET r == CHOOSE x \in shown : pos[x] = i
          IN [District |-> r.district_name,
              TotalCases |-> r.total_cases,
              CasesLastEpiweek |-> r.cases_last_epiweek,
              PercentageChangeInCases |->
                  PercentChange(r.cases_last_epiweek, Val(r.cases_prev_epiweek))]]

get_measles_top_10_districts(ev, year, scan) ==
    LET me == top_districts_measles_events(ev, year)
    IN IF me = {} THEN <<>>
       ELSE LET lew == latest_epi_week(me)
            IN TopDistrictsSelect(
                   district_summary(district_data(me), lew, previous_epi_week(lew)), scan)

GetMeaslesTop10Districts(year) ==
    /\ \E scan \in ScanOrders :
          result' = get_measles_top_10_districts(events, year, scan)
    /\ call' = Val([fn |-> "get_measles_top_10_districts", year |-> year])
    /\ UNCHANGED <<cache_data, clock, attributes, events, query_params, current_year, params, date_conditions>>

(* The time filter of the parameterized fetchers *)

\* str(n) of the years a request can carry, as f"...{year}" formats them.
IntText ==
    [n \in 2023..2027 |->
        CASE n = 2023 -> "2023" [] n = 2024 -> "2024" [] n = 2025 -> "2025"
          [] n = 2026 -> "2026" [] n = 2027 -> "2027"]

MonthNames ==
    <<"January", "February", "March", "April", "May", "June", "July", "August",
      "September", "October", "November", "December">>

\* {'January': 1, ..., 'December': 12}.get(month_name, 1)
MonthNumber(month_name) ==
    IF \E i \in 1..12 : MonthNames[i] = month_name
    THEN CHOOSE i \in 1..12 : MonthNames[i] = month_name
    ELSE 1

\* if year and month and month != f"All Months {year}": the year and the month
\* of month.split()[0]; elif year: the year.  A string is its list of words.
TimeConditions(year, month) ==
    IF TruthyInt(year) /\ TruthyStr(month)
       /\ Get(month) # <<"All", "Months", IntText[Get(year)]>>
    THEN {[field |-> "YEAR", value |-> Get(year)],
          [field |-> "MONTH", value |-> MonthNumber(Head(Get(month)))]}
    ELSE IF TruthyInt(year) THEN {[field |-> "YEAR", value |-> Get(year)]}
    ELSE {}

\* AND EXTRACT(YEAR FROM e.event_date) = .. AND EXTRACT(MONTH FROM e.event_date) = ..
MeetsConditions(e, conds) ==
    \A c \in conds :
        /\ c.field = "YEAR" => Calendar[e.event_date].year = c.value
        /\ c.field = "MONTH" => Calendar[e.event_date].month = c.value

\* The locations of the model name no region and no district, so that
\* location_filter stays empty: None and the national level.
Locations == {Null, Val(<<"National", "Level", "(MOH)">>)}

(* get_district_total_proportions *)

ProportionsLimit == 5

\* measles_events JOIN dim_eidsr_org_hierarchy WHERE district_name IS NOT NULL
\* AND district_name != 'Unknown' AND district_name != '1 Test District'
\* GROUP BY district_name, with COUNT(DISTINCT event_id).
district_cases(me) ==
    LET joined == UNION {{[district_name |-> Get(n), event_id |-> e.event_id] :
                            n \in {x \in OrgUnitDistricts[e.dim_org_hierarchy_key] :
                                      /\ ~IsNull(x)
                                      /\ Get(x) # <<"Unknown">>
                                      /\ Get(x) # <<"1", "Test", "District">>}} :
                         e \in me}
    IN {[district_name |-> n,
         district_cases |-> Cardinality({r.event_id : r \in
                                {x \in joined : x.district_name = n}})] :
            n \in {r.district_name : r \in joined}}

\* ROUND(cases * 100.0 / NULLIF(total, 0), 2), in hundredths.
Proportion(cases, total) ==
    IF total = 0 THEN Null ELSE Val(RoundDiv(cases * 10000, total))

\* SELECT ... FROM district_cases CROSS JOIN total_cases WHERE district_cases > 0
\* ORDER BY district_cases DESC LIMIT 5
TotalProportionsSelect(dc, scan) ==
    LET grand_total == SumValues({<<r, r.district_cases>> : r \in dc})
        kept == {r \in dc : r.district_cases > 0}
        pos == [r \in kept |-> 1 + Cardinality({x \in kept :
                    \/ x.district_cases > r.district_cases
                    \/ /\ x.district_cases = r.district_cases
                       /\ ScanBefore(x.district_name, r.district_name, scan)})]
        shown == {r \in kept : pos[r] <= ProportionsLimit}
    IN [i \in 1..Cardinality(shown) |->
          LET r == CHOOSE x \in shown : pos[x] = i
          IN [district |-> r.district_name, cases |-> r.district_cases,
              proportion |-> Proportion(r.district_cases, grand_total)]]

get_district_total_proportions(ev, conds, scan) ==
    TotalProportionsSelect(district_cases({e \in ev : MeetsConditions(e, conds)}), scan)

GetDistrictTotalProportions(location, year, month) ==
    /\ location \in Locations
    /\ date_conditions' = Val(TimeConditions(year, month))
    /\ \E scan \in ScanOrders :
          result' = get_district_total_proportions(events, TimeConditions(year, month), scan)
    /\ call' = Val([fn |-> "get_district_total_proportions", location |-> location,
                    year |-> year, month |-> month])
    /\ UNCHANGED <<cache_data, clock, attributes, events, query_params, current_year, params>>

(* get_district_weekly_proportions *)

\* measles_events of the query: JOIN dim_eidsr_org_hierarchy WHERE
\* district_name IS NOT NULL AND EXTRACT(YEAR FROM e.event_date) = year.
weekly_proportions_events(ev, year) ==
    UNION {{[event_id |-> e.event_id,
             week_starting |-> Calendar[e.event_date].week_starting,
             district_name |-> Get(n)] :
                n \in {x \in OrgUnitDistricts[e.dim_org_hierarchy_key] : ~IsNull(x)}} :
           e \in {x \in ev : Calendar[x.event_date].year = year}}

district_weekly_cases(me) ==
    {[week_starting |-> g[1], district_name |-> g[2],
      district_cases |-> Cardinality({r.event_id : r \in
          {x \in me : x.week_starting = g[1] /\ x.district_name = g[2]}})] :
        g \in {<<r.week_starting, r.district_name>> : r \in me}}

\* SELECT district_name, SUM(district_cases) ... ORDER BY total_cases DESC LIMIT 5
top_districts(dwc, scan) ==
    LET totals == [n \in {r.district_name : r \in dwc} |->
                      SumValues({<<r, r.district_cases>> : r \in
                          {x \in dwc : x.district_name = n}})]
    IN {n \in DOMAIN totals :
          Cardinality({m \in DOMAIN totals :
              \/ totals[m] > totals[n]
              \/ totals[m] = totals[n] /\ ScanBefore(m, n, scan)}) < ProportionsLimit}

\* district_proportions WHERE proportion IS NOT NULL ORDER BY week_starting,
\* district_name
get_district_weekly_proportions(ev, year, scan) ==
    LET dwc == district_weekly_cases(weekly_proportions_events(ev, year))
        weekly_total(w) == SumValues({<<r, r.district_cases>> : r \in
                              {x \in dwc : x.week_starting = w}})
        top == top_districts(dwc, scan)
        rows == {r \in dwc : r.district_name \in top /\
                             ~IsNull(Proportion(r.district_cases, weekly_total(r.week_starting)))}
        pos == [r \in rows |-> 1 + Cardinality({x \in rows :
                    \/ x.week_starting < r.week_starting
                    \/ /\ x.week_starting = r.week_starting
                       /\ NameRank[x.district_name] < NameRank[r.district_name]})]
    IN [i \in 1..Cardinality(rows) |->
          LET r == CHOOSE x \in rows : pos[x] = i
          IN [week_starting |-> r.week_starting, district |-> r.district_name,
              proportion |-> Get(Proportion(r.district_cases,
                                            weekly_total(r.week_starting)))]]

\* The call main() makes passes the year of the request; without a year the
\* query covers the twelve months before CURRENT_DATE instead.
GetDistrictWeeklyProportions(location, year, month) ==
    /\ location \in Locations
    /\ TruthyInt(year)
    /\ \E scan \in ScanOrders :
          result' = get_district_weekly_proportions(events, Get(year), scan)
    /\ call' = Val([fn |-> "get_district_weekly_proportions", location |-> location,
                    year |-> year, month |-> month])
    /\ UNCHANGED <<cache_data, clock, attributes, events, query_params, current_year, params, date_conditions>>

(* get_measles_cumulative_cases_by_district *)

\* dict(zip(df['district_name'], df['total_cases'])) of the rows ordered by
\* total_cases DESC: the mapping, as the list of its items.
get_measles_cumulative_cases_by_district(ev, scan) ==
    LET dc == district_cases(ev)
        pos == [r \in dc |-> 1 + Cardinality({x \in dc :
                    \/ x.district_cases > r.district_cases
                    \/ /\ x.district_cases = r.district_cases
                       /\ ScanBefore(x.district_name, r.district_name, scan)})]
    IN [i \in 1..Cardinality(dc) |->
          LET r == CHOOSE x \in dc : pos[x] = i
          IN [district_name |-> r.district_name, total_cases |-> r.district_cases]]

GetMeaslesCumulativeCasesByDistrict ==
    /\ \E scan \in ScanOrders :
          result' = get_measles_cumulative_cases_by_district(events, scan)
    /\ call' = Val([fn |-> "get_measles_cumulative_cases_by_district"])
    /\ UNCHANGED <<cache_data, clock, attributes, events, query_params, current_year, params, date_conditions>>

(* main(): the executive summary *)

\* weekly_data = get_measles_weekly_data(); district_data =
\* get_measles_top_10_districts(): both tables of one page, read without
\* arguments from the same warehouse.
ExecutiveSummary ==
    /\ \E scan \in ScanOrders :
          result' = [weekly_data |-> get_measles_weekly_data(events, Null),
                     district_data |-> get_measles_top_10_districts(events, Null, scan)]
    /\ call' = Val([fn |-> "main"])
    /\ UNCHANGED <<cache_data, clock, attributes, events, query_params, current_year, params, date_conditions>>

-----------------------------------------------------------------------------
(* The district scenarios: the first n districts have a seeded history, 1,  *)
(* 2 or 3 events in epi-week 1 or 2 of 2024; then up to MaxExtraDistrict    *)
(* further events in any org unit, in one of these weeks or in week 52 of   *)
(* 2023, and one call.                                                      *)

MaxExtraDistrict == 1
MaxFailAt == 3
DistrictDates == {WeekDate(2), WeekDate(3), WeekDate(4)}
SeedDate(k) == WeekDate(3 + ((k \div 3) % 2))

InitDistrict ==
    /\ cache_data = {}
    /\ clock = 0
    /\ \E n \in 0..NumDistricts :
          events = UNION {{EventRow(SeedDate(k), k, 0 - j) :
                              j \in 0..(SeedCount(k) - 1)} : k \in 1..n}
    /\ call = Null
    /\ result = Null
    /\ query_params = Null
    /\ current_year = 2026
    /\ params = Null
    /\ date_conditions = Null
    /\ attributes = {}

IngestDistrict ==
    /\ IsNull(call)
    /\ Cardinality(ExtraEvents) < MaxExtraDistrict
    /\ \E d \in DistrictDates : \E k \in OrgKeys : Ingest(d, k)

FetchTopDistricts ==
    IsNull(call) /\ \E year \in YearArgs : GetMeaslesTop10Districts(year)

FetchTotalProportions ==
    IsNull(call) /\ \E location \in Locations : \E year \in YearArgs :
        GetDistrictTotalProportions(location, year, Null)

FetchWeeklyProportions ==
    IsNull(call) /\ \E year \in YearArgs :
        GetDistrictWeeklyProportions(Null, year, Null)

FetchCumulativeCases == IsNull(call) /\ GetMeaslesCumulativeCasesByDistrict

FetchSummary == IsNull(call) /\ ExecutiveSummary

NextDistrict ==
    \/ IngestDistrict
    \/ FetchSummary
    \/ FetchTopDistricts
    \/ FetchTotalProportions
    \/ FetchWeeklyProportions
    \/ FetchCumulativeCases

SpecDistrict == InitDistrict /\ [][NextDistrict]_vars

-----------------------------------------------------------------------------
(* get_measles_top_districts_epicurves *)

\* CURRENT_DATE of the request, the first day of its year.
CurrentDate == YearStart(current_year)

\* The per-district query: the events of the org units of the district, of the
\* year when one is given and of the last 12 months otherwise, counted by
\* EXTRACT(WEEK FROM event_date), ORDER BY epi_week.
district_epicurve(ev, district_name, year) ==
    LET me == {e \in ev :
                  /\ Val(district_name) \in OrgUnitDistricts[e.dim_org_hierarchy_key]
                  /\ IF TruthyInt(year)
                     THEN Calendar[e.event_date].year = Get(year)
                     ELSE e.event_date >= CurrentDate - 365}
        weeks == {Calendar[e.event_date].week : e \in me}
        pos == [w \in weeks |-> Cardinality({x \in weeks : x < w}) + 1]
    IN [i \in 1..Cardinality(weeks) |->
          LET w == CHOOSE x \in weeks : pos[x] = i
          IN [epi_week |-> w,
              weekly_cases |-> Cardinality({e.event_id : e \in
                                  {x \in me : Calendar[x.event_date].week = w}})]]

\* The value from the except branch gone wrong: the districts appended before
\* the exception.
PartialEpicurves(epicurve_data) == epicurve_data

\* except Exception: return [], whatever the loop has appended so far.
EpicurveFallback(epicurve_data) == <<>>

RECURSIVE EpicurveLoop(_, _, _, _)
\* for _, row in top_districts.iterrows(): the query of row i raises when i is
\* fail_at; a district is appended when its query returns rows.
EpicurveLoop(curves, i, epicurve_data, fail_at) ==
    IF i > Len(curves) THEN [raised |-> FALSE, epicurve_data |-> epicurve_data]
    ELSE IF i = fail_at THEN [raised |-> TRUE, epicurve_data |-> epicurve_data]
    ELSE EpicurveLoop(curves, i + 1,
                      IF curves[i].data # <<>>
                      THEN Append(epicurve_data, curves[i]) ELSE epicurve_data,
                      fail_at)

\* What the loop of a call does, given the top districts table.
EpicurveRun(ev, top_table, year, fail_at) ==
    EpicurveLoop([i \in 1..Len(top_table) |->
                     [district |-> top_table[i].District,
                      data |-> district_epicurve(ev, top_table[i].District, year)]],
                 1, <<>>, fail_at)

get_measles_top_districts_epicurves(ev, year, scan, fail_at) ==
    LET top_table == get_measles_top_10_districts(ev, year, scan)
        run == EpicurveRun(ev, top_table, year, fail_at)
    IN IF top_table = <<>> THEN <<>>
       ELSE IF run.raised THEN EpicurveFallback(run.epicurve_data)
       ELSE run.epicurve_data

\* fail_at: the per-district query that raises, 0 when none does.  The call
\* keeps whether the loop raised and what it had appended by then.
GetMeaslesTopDistrictsEpicurves(year, fail_at) ==
    /\ \E scan \in ScanOrders :
          /\ result' = get_measles_top_districts_epicurves(events, year, scan, fail_at)
          /\ call' = Val([fn |-> "get_measles_top_districts_epicurves", year |-> year,
                          run |-> EpicurveRun(events,
                                      get_measles_top_10_districts(events, year, scan),
                                      year, fail_at)])
    /\ UNCHANGED <<cache_data, clock, attributes, events, query_params, current_year, params, date_conditions>>

FetchEpicurves ==
    IsNull(call) /\ \E year \in YearArgs : \E fail_at \in 0..MaxFailAt :
        GetMeaslesTopDistrictsEpicurves(year, fail_at)

NextEpicurves == IngestDistrict \/ FetchEpicurves

SpecEpicurves == InitDistrict /\ [][NextEpicurves]_vars

-----------------------------------------------------------------------------
(* main(): the try blocks of a page render and the aggregates each draws *)

\* The executive summary, the weekly table, the three charts of the
\* demographics section, each in a try block of its own, and the four
\* choropleth maps, drawn one after the other in one try block.
TryBlocks ==
    <<<<"executive_summary">>,
      <<"weekly_table">>,
      <<"gender_chart">>,
      <<"age_sex_pyramid">>,
      <<"deaths_by_district_chart">>,
      <<"cumulative_cases_map", "reporting_21_days_map", "attack_rates_map",
        "current_rates_map">>>>

Aggregates == UNION {{b[i] : i \in 1..Len(b)} : b \in {TryBlocks[k] : k \in 1..Len(TryBlocks)}}

RECURSIVE RenderBlock(_, _, _)
\* try: the aggregates of the block in turn; except Exception: st.error(...).
\* The aggregate whose code raises ends the block, what was drawn before it
\* stays on the page.
RenderBlock(block, i, raising) ==
    IF i > Len(block) \/ Val(block[i]) = raising THEN <<>>
    ELSE <<block[i]>> \o RenderBlock(block, i + 1, raising)

RECURSIVE RenderBlocks(_, _)
\* The try blocks of main() follow one another.
RenderBlocks(k, raising) ==
    IF k > Len(TryBlocks) THEN <<>>
    ELSE RenderBlock(TryBlocks[k], 1, raising) \o RenderBlocks(k + 1, raising)

\* One page render: raising is the aggregate whose fetching or drawing code
\* raises, <<>> when none does.
RenderPage(raising) ==
    /\ result' = [rendered |-> RenderBlocks(1, raising),
                  weekly_data |-> get_measles_weekly_data(events, Null)]
    /\ call' = Val([fn |-> "main", raising |-> raising])
    /\ UNCHANGED <<cache_data, clock, attributes, events, query_params, current_year, params, date_conditions>>

FetchPage ==
    IsNull(call) /\ \E raising \in {Null} \cup {Val(a) : a \in Aggregates} :
        RenderPage(raising)

NextPage == IngestDistrict \/ FetchPage

SpecPage == InitDistrict /\ [][NextPage]_vars

-----------------------------------------------------------------------------
(* get_measles_summary_stats *)

\* The WHERE clause of the measles_events CTE, condition by condition.
SummaryStatsWhere ==
    <<[column |-> "data_element_id", op |-> "=", value |-> "qIlO7yEpiVv"],
      [column |-> "data_value", op |-> "=", value |-> "Measles (B05.0_B05.9)"]>>

\* date_filter: BETWEEN, >= or <=, from the dates that are given.
DateFilter(start_date, end_date) ==
    IF ~IsNull(start_date) /\ ~IsNull(end_date)
    THEN <<[column |-> "event_date", op |-> ">=", value |-> Get(start_date)],
           [column |-> "event_date", op |-> "<=", value |-> Get(end_date)]>>
    ELSE IF ~IsNull(start_date)
    THEN <<[column |-> "event_date", op |-> ">=", value |-> Get(start_date)]>>
    ELSE IF ~IsNull(end_date)
    THEN <<[column |-> "event_date", op |-> "<=", value |-> Get(end_date)]>>
    ELSE <<>>

\* query.replace(old, old + date_filter): the conditions of the filter follow
\* the condition old where the clause has it, and the clause stays as it is
\* where it has no such condition.
ReplaceCondition(where, old, date_filter) ==
    IF \E i \in 1..Len(where) : where[i] = old
    THEN LET i == CHOOSE x \in 1..Len(where) : where[x] = old
         IN SubSeq(where, 1, i) \o date_filter \o SubSeq(where, i + 1, Len(where))
    ELSE where

\* An event meets the conditions on event_date a WHERE clause holds.
MeetsWhere(e, where) ==
    \A i \in 1..Len(where) :
        where[i].column = "event_date" =>
            IF where[i].op = ">=" THEN e.event_date >= where[i].value
            ELSE e.event_date <= where[i].value

get_measles_summary_stats(ev, start_date, end_date) ==
    LET date_filter == DateFilter(start_date, end_date)
        where == IF date_filter # <<>>
                 THEN ReplaceCondition(SummaryStatsWhere,
                     [column |-> "data_value", op |-> "LIKE", value |-> "%Measles%"],
                     date_filter)
                 ELSE SummaryStatsWhere
        joined == {e \in ev : /\ MeetsWhere(e, where)
                              /\ OrgUnitDistricts[e.dim_org_hierarchy_key] # {}}
    IN [total_cases |-> Cardinality({e.event_id : e \in joined}),
        affected_districts |->
            Cardinality(UNION {OrgUnitDistricts[e.dim_org_hierarchy_key] : e \in joined}
                            \ {Null}),
        cases_last_7_days |-> Cardinality({e.event_id : e \in
            {x \in joined : x.event_date >= CurrentDate - 7}}),
        cases_last_30_days |-> Cardinality({e.event_id : e \in
            {x \in joined : x.event_date >= CurrentDate - 30}})]

GetMeaslesSummaryStats(start_date, end_date) ==
    /\ result' = get_measles_summary_stats(events, start_date, end_date)
    /\ call' = Val([fn |-> "get_measles_summary_stats",
                    start_date |-> start_date, end_date |-> end_date])
    /\ UNCHANGED <<cache_data, clock, attributes, events, query_params, current_year, params, date_conditions>>

\* The dates a caller passes: none, or a day between the candidate weeks.
DateArgs == {Null, Val(WeekDate(3) - 1), Val(WeekDate(3) + 1)}

FetchSummaryStats ==
    IsNull(call) /\ \E start_date \in DateArgs : \E end_date \in DateArgs :
        GetMeaslesSummaryStats(start_date, end_date)

NextStats == IngestDistrict \/ FetchSummaryStats

SpecStats == InitDistrict /\ [][NextStats]_vars

-----------------------------------------------------------------------------
(* get_dynamic_parameters and the fetchers it parameterizes *)

\* Python truthiness of an optional URL text, and Python's a or b.
TruthyText(x) == ~IsNull(x) /\ Get(x) # ""
Or(a, b) == IF TruthyText(a) THEN a ELSE b

\* int(s) of the texts a request carries: the integer, or NULL for ValueError.
IntLiterals ==
    {<<"2023", 2023>>, <<"2024", 2024>>, <<"+2024", 2024>>, <<"2026", 2026>>,
     <<"0", 0>>, <<"3", 3>>, <<"03", 3>>, <<"12", 12>>, <<"13", 13>>}
ParseInt(s) ==
    IF \E p \in IntLiterals : p[1] = s
    THEN Val((CHOOSE p \in IntLiterals : p[1] = s)[2])
    ELSE Null

\* s.lower() of the texts a request carries.
UpperCased ==
    {<<"ALL", "all">>, <<"All", "all">>, <<"March", "march">>, <<"MAR", "mar">>,
     <<"NATIONAL", "national">>, <<"National", "national">>}
Lower(s) ==
    IF \E p \in UpperCased : p[1] = s
    THEN (CHOOSE p \in UpperCased : p[1] = s)[2]
    ELSE s

location_map ==
    {<<"national", <<"National", "Level", "(MOH)">>>>,
     <<"regional", <<"Regional", "Level">>>>,
     <<"district", <<"District", "Level">>>>}

month_map ==
    {<<"january", 1>>, <<"jan", 1>>, <<"february", 2>>, <<"feb", 2>>,
     <<"march", 3>>, <<"mar", 3>>, <<"april", 4>>, <<"apr", 4>>, <<"may", 5>>,
     <<"june", 6>>, <<"jun", 6>>, <<"july", 7>>, <<"jul", 7>>,
     <<"august", 8>>, <<"aug", 8>>, <<"september", 9>>, <<"sep", 9>>,
     <<"october", 10>>, <<"oct", 10>>, <<"november", 11>>, <<"nov", 11>>,
     <<"december", 12>>, <<"dec", 12>>}

\* dict.get(key): the value, or NULL.
Lookup(map, key) ==
    IF \E p \in map : p[1] = key
    THEN Val((CHOOSE p \in map : p[1] = key)[2])
    ELSE Null

\* A string of the parameters is its list of words; a URL text is one word.
selected_location(location_from_url) ==
    IF TruthyText(location_from_url)
    THEN LET mapped == Lookup(location_map, Lower(Get(location_from_url)))
         IN IF IsNull(mapped) THEN <<Get(location_from_url)>> ELSE Get(mapped)
    ELSE <<"National", "Level", "(MOH)">>

selected_year(year_from_url, now_year) ==
    IF TruthyText(year_from_url)
    THEN LET n == ParseInt(Get(year_from_url))
         IN IF IsNull(n) THEN now_year ELSE Get(n)
    ELSE now_year

\* The pair <<selected_month, month_display>>.
selected_month(month_from_url, year, now_year) ==
    LET default_month == <<<<"All", "Months", IntText[now_year]>>, <<"All", "Months">>>>
        named(month_num) ==
            <<<<MonthNames[month_num], IntText[year]>>, <<MonthNames[month_num]>>>>
    IN IF TruthyText(month_from_url)
       THEN IF Lower(Get(month_from_url)) = "all"
            THEN <<<<"All", "Months", IntText[year]>>, <<"All", "Months">>>>
            ELSE LET month_num == ParseInt(Get(month_from_url))
                     month_name == Lookup(month_map, Lower(Get(month_from_url)))
                 IN IF ~IsNull(month_num)
                    THEN IF 1 <= Get(month_num) /\ Get(month_num) <= 12
                         THEN named(Get(month_num))
                         ELSE default_month
                    ELSE IF ~IsNull(month_name) THEN named(Get(month_name))
                         ELSE default_month
       ELSE default_month

get_dynamic_parameters(q, now_year) ==
    LET year_from_url == Or(q.year, q.y)
        month_from_url == Or(q.month, q.m)
        location_from_url == Or(q.location, q.l)
        location == selected_location(location_from_url)
        year == selected_year(year_from_url, now_year)
        month == selected_month(month_from_url, year, now_year)
    IN [disease |-> <<"Measles">>,
        location |-> location,
        year |-> year,
        month |-> month[1],
        month_display |-> month[2],
        coverage |-> IF Like(location, <<"National", "Level">>)
                     THEN <<"National">> ELSE location]

GetDynamicParameters ==
    /\ ~IsNull(query_params)
    /\ IsNull(params)
    /\ params' = Val(get_dynamic_parameters(Get(query_params), current_year))
    /\ UNCHANGED <<cache_data, clock, attributes, events, call, result, query_params, current_year, date_conditions>>

\* The texts of the query string of a request; NULL is a parameter left out.
YearTexts == {Null, Val(""), Val("2023"), Val("2024"), Val("+2024"), Val("abc")}
ShortYearTexts == {Null, Val("2024")}
MonthTexts ==
    {Null, Val("all"), Val("All"), Val("3"), Val("13"), Val("0"), Val("mar"),
     Val("March"), Val("marzo")}
ShortMonthTexts == {Null, Val("12")}
LocationTexts == {Null, Val("national")}
ShortLocationTexts == {Null, Val("NATIONAL")}

\* The browser opens the report with a query string.
Request ==
    /\ IsNull(query_params)
    /\ \E year \in YearTexts : \E y \in ShortYearTexts :
       \E month \in MonthTexts : \E m \in ShortMonthTexts :
       \E location \in LocationTexts : \E l \in ShortLocationTexts :
          query_params' = Val([year |-> year, y |-> y, month |-> month, m |-> m,
                               location |-> location, l |-> l])
    /\ UNCHANGED <<cache_data, clock, attributes, events, call, result, current_year, params, date_conditions>>

\* get_district_total_proportions(location=params['location'],
\* year=params['year'], month=params['month'])
FetchWithParams ==
    /\ ~IsNull(params)
    /\ IsNull(call)
    /\ GetDistrictTotalProportions(Val(Get(params).location), Val(Get(params).year),
                                   Val(Get(params).month))

\* The report is opened in 2024 or in 2026, on a warehouse that holds events
\* of some of four months: December 2023, January and March 2024, and
\* December 2024.
ParamDates == <<WeekDate(1), WeekDate(3), WeekDate(12), YearEndDate>>
InitParams ==
    /\ cache_data = {}
    /\ clock = 0
    /\ \E S \in SUBSET (1..Len(ParamDates)) :
          events = {EventRow(ParamDates[i], i, 0) : i \in S}
    /\ call = Null
    /\ result = Null
    /\ query_params = Null
    /\ current_year \in {2024, 2026}
    /\ params = Null
    /\ date_conditions = Null
    /\ attributes = {}

NextParams == Request \/ GetDynamicParameters \/ FetchWithParams

SpecParams == InitParams /\ [][NextParams]_vars

-----------------------------------------------------------------------------
(* Text values *)

\* A text value of an attribute or of a data element is the sequence of its
\* characters.
Digits == <<"0", "1", "2", "3", "4", "5", "6", "7", "8", "9">>
IsDigit(c) == \E n \in 1..10 : Digits[n] = c
DigitValue(c) == (CHOOSE n \in 1..10 : Digits[n] = c) - 1

UpperCase ==
    {<<"A", "a">>, <<"B", "b">>, <<"C", "c">>, <<"D", "d">>, <<"E", "e">>,
     <<"F", "f">>, <<"G", "g">>, <<"H", "h">>, <<"I", "i">>, <<"J", "j">>,
     <<"K", "k">>, <<"L", "l">>, <<"M", "m">>, <<"N", "n">>, <<"O", "o">>,
     <<"P", "p">>, <<"Q", "q">>, <<"R", "r">>, <<"S", "s">>, <<"T", "t">>,
     <<"U", "u">>, <<"V", "v">>, <<"W", "w">>, <<"X", "x">>, <<"Y", "y">>,
     <<"Z", "z">>}
LowerChar(c) ==
    IF \E p \in UpperCase : p[1] = c THEN (CHOOSE p \in UpperCase : p[1] = c)[2] ELSE c
\* LOWER(text)
LowerText(s) == [i \in 1..Len(s) |-> LowerChar(s[i])]

\* text ~ '^[0-9]+$' and text ~ '[0-9]+'
AllDigits(s) == Len(s) > 0 /\ \A i \in 1..Len(s) : IsDigit(s[i])
HasDigit(s) == \E i \in 1..Len(s) : IsDigit(s[i])

\* CAST(text AS INTEGER) of a text of digits.
RECURSIVE ToInteger(_)
ToInteger(s) ==
    IF s = <<>> THEN 0
    ELSE ToInteger(SubSeq(s, 1, Len(s) - 1)) * 10 + DigitValue(s[Len(s)])

\* REGEXP_REPLACE(text, '[^0-9]', '', 'g')
DigitsOf(s) == SelectSeq(s, IsDigit)

\* text ~ '^[0-9]{4}-[0-9]{2}-[0-9]{2}' and text ~ '^[0-9]{2}/[0-9]{2}/[0-9]{4}'
Shaped(s, shape) ==
    /\ Len(s) >= Len(shape)
    /\ \A i \in 1..Len(shape) :
          IF shape[i] = "9" THEN IsDigit(s[i]) ELSE s[i] = shape[i]
IsoDateShape == <<"9", "9", "9", "9", "-", "9", "9", "-", "9", "9">>
SlashDateShape == <<"9", "9", "/", "9", "9", "/", "9", "9", "9", "9">>

\* EXTRACT(YEAR FROM AGE(today, birth)): the full years between two dates,
\* each a triple <<year, month, day>>.
AgeInYears(today, birth) ==
    today[1] - birth[1] -
        (IF today[2] < birth[2] \/ (today[2] = birth[2] /\ today[3] < birth[3])
         THEN 1 ELSE 0)

(* Classification of age, sex and outcome texts *)

\* processed_demographics.calculated_age of get_measles_demographic_data; today
\* is CURRENT_DATE as <<year, month, day>>.
calculated_age(birth_or_age_value, today) ==
    LET v == birth_or_age_value
    IN IF Shaped(v, IsoDateShape)
       THEN Val(AgeInYears(today, <<ToInteger(SubSeq(v, 1, 4)),
                                    ToInteger(SubSeq(v, 6, 7)),
                                    ToInteger(SubSeq(v, 9, 10))>>))
       ELSE IF Shaped(v, SlashDateShape)
       THEN Val(AgeInYears(today, <<ToInteger(SubSeq(v, 7, 10)),
                                    ToInteger(SubSeq(v, 4, 5)),
                                    ToInteger(SubSeq(v, 1, 2))>>))
       ELSE IF AllDigits(v) THEN Val(ToInteger(v))
       ELSE IF \/ Like(LowerText(v), <<"m", "o", "n", "t", "h">>)
               \/ Like(LowerText(v), <<"w", "e", "e", "k">>)
       THEN Val(0)
       ELSE IF HasDigit(v) THEN Val(ToInteger(DigitsOf(v)))
       ELSE Null

\* The bands from 15 years on, common to the schemes of the attribute queries.
AdultBand(n) ==
    IF n <= 19 THEN "15-19" ELSE IF n <= 24 THEN "20-24"
    ELSE IF n <= 29 THEN "25-29" ELSE IF n <= 34 THEN "30-34"
    ELSE IF n <= 39 THEN "35-39" ELSE IF n <= 44 THEN "40-44"
    ELSE IF n <= 49 THEN "45-49" ELSE "50+"

\* WHEN v::int BETWEEN 0 AND 4 THEN '0-4' ... WHEN v::int >= 50 THEN '50+'
FiveYearBand(n) ==
    IF n <= 4 THEN "0-4" ELSE IF n <= 9 THEN "5-9"
    ELSE IF n <= 14 THEN "10-14" ELSE AdultBand(n)

\* age_sex_data.age_group of get_measles_age_sex_distribution: the age
\* attribute of a LEFT JOIN, NULL without attribute record.
age_group_age_sex(attribute_value) ==
    IF IsNull(attribute_value) \/ ~AllDigits(Get(attribute_value)) THEN "Unknown"
    ELSE FiveYearBand(ToInteger(Get(attribute_value)))

\* case_counts.age_group of get_measles_attack_rates_by_age_sex.
age_group_attack_rates(attribute_value) ==
    IF IsNull(attribute_value) \/ ~AllDigits(Get(attribute_value)) THEN "Unknown"
    ELSE LET n == ToInteger(Get(attribute_value))
         IN IF n <= 4 THEN "0-4" ELSE IF n <= 14 THEN "5-14" ELSE AdultBand(n)

\* CASE WHEN LOWER(v) LIKE '%male%' AND LOWER(v) NOT LIKE '%female%' THEN 'Male'
\* WHEN LOWER(v) LIKE '%female%' THEN 'Female' ELSE 'Unknown' END, of a
\* nullable text.
sex_category(value) ==
    IF IsNull(value) THEN "Unknown"
    ELSE IF /\ Like(LowerText(Get(value)), <<"m", "a", "l", "e">>)
            /\ ~Like(LowerText(Get(value)), <<"f", "e", "m", "a", "l", "e">>)
    THEN "Male"
    ELSE IF Like(LowerText(Get(value)), <<"f", "e", "m", "a", "l", "e">>) THEN "Female"
    ELSE "Unknown"

\* sex_data.sex_group of get_measles_weekly_by_sex: CASE WHEN LOWER(v) = 'male'
\* THEN 'Male' WHEN LOWER(v) = 'female' THEN 'Female' ELSE 'Unknown' END
sex_group(value) ==
    IF IsNull(value) THEN "Unknown"
    ELSE IF LowerText(Get(value)) = <<"m", "a", "l", "e">> THEN "Male"
    ELSE IF LowerText(Get(value)) = <<"f", "e", "m", "a", "l", "e">> THEN "Female"
    ELSE "Unknown"

\* The outcome test of get_measles_total_deaths, on tea.attribute_value.
IsDeathAttribute(attribute_value) ==
    LET v == LowerText(attribute_value)
    IN \/ Like(v, <<"d", "e", "a", "t", "h">>)
       \/ Like(v, <<"d", "i", "e", "d">>)
       \/ Like(v, <<"d", "e", "a", "d">>)
       \/ v = <<"y", "e", "s">>

\* LOWER(outcome.attribute_value) = 'dead' of get_measles_deaths_by_district.
IsDeadOutcome(attribute_value) == LowerText(attribute_value) = <<"d", "e", "a", "d">>
-----------------------------------------------------------------------------


(* Cases: tracked entities, their events and their attribute records *)

\* A row of dwh.fact_eidsr_event_data of a tracked entity.
CaseEvent(d, k, n, entity) ==
    [event_id |-> <<d, k, n>>, event_date |-> d, dim_org_hierarchy_key |-> k,
     tracked_entity_instance_id |-> entity]

\* A row of dwh.fact_eidsr_tracked_entity_attributes.
AttributeRow(entity, attribute_id, display_name, attribute_value) ==
    [entity_id |-> entity, attribute_id |-> attribute_id,
     display_name |-> display_name, attribute_value |-> attribute_value]

\* The attributes of the queries: age in years, sex and outcome by
\* attribute_id, and an attribute found by its display name.
AgeAttribute == [attribute_id |-> "UezutfURtQG", display_name |-> <<"A", "g", "e", " ", "i", "n", " ", "y", "e", "a", "r", "s">>]
SexAttribute == [attribute_id |-> "Rq4qM2wKYFL", display_name |-> <<"S", "e", "x">>]
OutcomeAttribute == [attribute_id |-> "ulE2j2pFgDl", display_name |-> <<"O", "u", "t", "c", "o", "m", "e">>]
DeathAttribute == [attribute_id |-> "death", display_name |-> <<"D", "e", "a", "t", "h">>]

\* first_events: GROUP BY tracked_entity_instance_id, dim_org_hierarchy_key with
\* MIN(event_date).
first_events(ev) ==
    {[tracked_entity_instance_id |-> e.tracked_entity_instance_id,
      dim_org_hierarchy_key |-> e.dim_org_hierarchy_key,
      first_event_date |->
          CHOOSE d \in {x.event_date : x \in
                          {y \in ev : /\ y.tracked_entity_instance_id =
                                             e.tracked_entity_instance_id
                                      /\ y.dim_org_hierarchy_key =
                                             e.dim_org_hierarchy_key}} :
              \A x \in ev : (/\ x.tracked_entity_instance_id =
                                   e.tracked_entity_instance_id
                             /\ x.dim_org_hierarchy_key = e.dim_org_hierarchy_key)
                            => d <= x.event_date] : e \in ev}

\* LEFT JOIN dwh.fact_eidsr_tracked_entity_attributes a ON (a.entity_id = entity
\* AND a.attribute_id = attribute_id): the joined records, or one NULL.
LeftJoinAttribute(attrs, entity, attribute_id) ==
    LET matched == {a \in attrs : a.entity_id = entity /\ a.attribute_id = attribute_id}
    IN IF matched = {} THEN {Null} ELSE {Val(a) : a \in matched}

\* attribute_value of a joined record, NULL for the NULL row.
AttributeValue(joined) ==
    IF IsNull(joined) THEN Null ELSE Val(Get(joined).attribute_value)

\* first_events fe LEFT JOIN attributes age_years LEFT JOIN attributes sex, the
\* FROM clause of the age and sex queries (the hierarchy row of a key is unique
\* or missing, so its LEFT JOIN adds no row).
AgeSexJoin(ev, attrs) ==
    UNION {{[fe |-> f, age_years |-> a, sex |-> s] :
              a \in LeftJoinAttribute(attrs, f.tracked_entity_instance_id,
                                      AgeAttribute.attribute_id),
              s \in LeftJoinAttribute(attrs, f.tracked_entity_instance_id,
                                      SexAttribute.attribute_id)} :
           f \in first_events(ev)}

(* get_measles_age_sex_distribution, called without parameters *)

AgeSexGroups ==
    <<"0-4", "5-9", "10-14", "15-19", "20-24", "25-29", "30-34", "35-39",
      "40-44", "45-49", "50+", "Unknown">>

age_sex_data(ev, attrs) ==
    {[row |-> j,
      age_group |-> age_group_age_sex(AttributeValue(j.age_years)),
      sex_category |-> sex_category(AttributeValue(j.sex))] :
        j \in AgeSexJoin(ev, attrs)}

\* The placeholder table of get_measles_age_sex_distribution with multiplier 1.0.
AgeSexPlaceholder ==
    LET base_male == <<8, 12, 15, 10, 8, 6, 4, 3, 2, 1, 2>>
        base_female == <<6, 10, 12, 8, 6, 5, 3, 2, 1, 1, 1>>
    IN [i \in 1..Len(base_male) |->
          [age_group |-> AgeSexGroups[i], male_cases |-> base_male[i],
           female_cases |-> base_female[i]]]

\* The groups of a grouped relation in the order of its ORDER BY CASE.
GroupsInOrder(order, present) ==
    SelectSeq(order, LAMBDA g : g \in present)

get_measles_age_sex_distribution(ev, attrs, failed) ==
    LET asd == age_sex_data(ev, attrs)
        groups == GroupsInOrder(AgeSexGroups, {r.age_group : r \in asd})
    IN IF failed \/ asd = {} THEN AgeSexPlaceholder
       ELSE [i \in 1..Len(groups) |->
               [age_group |-> groups[i],
                male_cases |-> Cardinality({r \in asd :
                    r.age_group = groups[i] /\ r.sex_category = "Male"}),
                female_cases |-> Cardinality({r \in asd :
                    r.age_group = groups[i] /\ r.sex_category = "Female"}),
                unknown_cases |-> Cardinality({r \in asd :
                    r.age_group = groups[i] /\ r.sex_category = "Unknown"})]]

\* failed: the query raises (connection lost, statement rejected).
GetMeaslesAgeSexDistribution(failed) ==
    /\ result' = get_measles_age_sex_distribution(events, attributes, failed)
    /\ call' = Val([fn |-> "get_measles_age_sex_distribution", failed |-> failed])
    /\ UNCHANGED <<cache_data, clock, attributes, events, query_params, current_year, params, date_conditions>>

(* get_measles_gender_distribution, called without parameters *)

GenderGroups == <<"Male", "Female", "Unknown">>

gender_classification(ev, attrs) ==
    UNION {{[fe |-> f, gender |-> g,
             gender_category |-> sex_category(AttributeValue(g))] :
              g \in LeftJoinAttribute(attrs, f.tracked_entity_instance_id,
                                      SexAttribute.attribute_id)} :
           f \in first_events(ev)}

GenderPlaceholder ==
    LET cases == <<45, 38, 5>>
    IN [i \in 1..Len(cases) |-> [gender |-> GenderGroups[i], cases |-> cases[i]]]

get_measles_gender_distribution(ev, attrs, failed) ==
    LET gc == gender_classification(ev, attrs)
        groups == GroupsInOrder(GenderGroups, {r.gender_category : r \in gc})
    IN IF failed \/ gc = {} THEN GenderPlaceholder
       ELSE [i \in 1..Len(groups) |->
               [gender |-> groups[i],
                cases |-> Cardinality({r \in gc : r.gender_category = groups[i]})]]

GetMeaslesGenderDistribution(failed) ==
    /\ result' = get_measles_gender_distribution(events, attributes, failed)
    /\ call' = Val([fn |-> "get_measles_gender_distribution", failed |-> failed])
    /\ UNCHANGED <<cache_data, clock, attributes, events, query_params, current_year, params, date_conditions>>

-----------------------------------------------------------------------------



(* get_measles_weekly_by_sex, called without parameters *)

WeeklyBySexLimit == 20

\* measles_events of get_measles_weekly_by_sex: the events of an org unit of the
\* hierarchy, with the Monday of their week.
weekly_by_sex_measles_events(ev) ==
    {[event_id |-> e.event_id,
      tracked_entity_instance_id |-> e.tracked_entity_instance_id,
      week_starting |-> DateTruncWeek(e.event_date)] :
        e \in {x \in ev : OrgUnitDistricts[x.dim_org_hierarchy_key] # {}}}

sex_data(me, attrs) ==
    UNION {{[event_id |-> m.event_id, week_starting |-> m.week_starting,
             gender |-> g, sex_group |-> sex_group(AttributeValue(g))] :
              g \in LeftJoinAttribute(attrs, m.tracked_entity_instance_id,
                                      SexAttribute.attribute_id)} :
           m \in me}

weekly_by_sex(sd) ==
    {[week_starting |-> w,
      male_cases |-> Cardinality({r.event_id : r \in
          {x \in sd : x.week_starting = w /\ x.sex_group = "Male"}}),
      female_cases |-> Cardinality({r.event_id : r \in
          {x \in sd : x.week_starting = w /\ x.sex_group = "Female"}})] :
        w \in {r.week_starting : r \in sd}}

get_measles_weekly_by_sex(ev, attrs, failed) ==
    LET kept == {r \in weekly_by_sex(sex_data(weekly_by_sex_measles_events(ev), attrs)) :
                    r.male_cases > 0 \/ r.female_cases > 0}
        pos == [r \in kept |->
                  Cardinality({x \in kept : x.week_starting > r.week_starting}) + 1]
        shown == {r \in kept : pos[r] <= WeeklyBySexLimit}
    IN IF failed THEN <<>>
       ELSE [i \in 1..Cardinality(shown) |-> CHOOSE r \in shown : pos[r] = i]

GetMeaslesWeeklyBySex(failed) ==
    /\ result' = get_measles_weekly_by_sex(events, attributes, failed)
    /\ call' = Val([fn |-> "get_measles_weekly_by_sex", failed |-> failed])
    /\ UNCHANGED <<cache_data, clock, attributes, events, query_params, current_year, params, date_conditions>>


(* get_measles_total_deaths *)

\* The count gone wrong: COUNT(*) of the death records instead of
\* COUNT(DISTINCT tea.entity_id).
TotalDeathRecords(ev, attrs, failed) ==
    IF failed THEN 0
    ELSE Cardinality({x \in attrs :
            /\ \E e \in ev : e.tracked_entity_instance_id = x.entity_id
            /\ Like(LowerText(x.display_name), <<"d", "e", "a", "t", "h">>)
            /\ IsDeathAttribute(x.attribute_value)})

\* COUNT(DISTINCT tea.entity_id) of the attribute records of entities with a
\* measles event whose display name contains "death" and whose value tells a
\* death; 0 when the query raises.
get_measles_total_deaths(ev, attrs, failed) ==
    IF failed THEN 0
    ELSE Cardinality({a.entity_id : a \in {x \in attrs :
            /\ \E e \in ev : e.tracked_entity_instance_id = x.entity_id
            /\ Like(LowerText(x.display_name), <<"d", "e", "a", "t", "h">>)
            /\ IsDeathAttribute(x.attribute_value)}})

GetMeaslesTotalDeaths(failed) ==
    /\ result' = get_measles_total_deaths(events, attributes, failed)
    /\ call' = Val([fn |-> "get_measles_total_deaths", failed |-> failed])
    /\ UNCHANGED <<cache_data, clock, attributes, events, query_params, current_year, params, date_conditions>>

(* get_measles_deaths_by_district, the definition in force, without parameters *)

\* joined_data: the events with an outcome record of value "dead" in an org
\* unit with a district name.
joined_data(ev, attrs) ==
    {[tracked_entity_instance_id |-> e.tracked_entity_instance_id,
      dim_org_hierarchy_key |-> e.dim_org_hierarchy_key] :
        e \in {x \in ev :
            /\ \E a \in attrs :
                  /\ a.entity_id = x.tracked_entity_instance_id
                  /\ a.attribute_id = OutcomeAttribute.attribute_id
                  /\ IsDeadOutcome(a.attribute_value)
            /\ \E n \in OrgUnitDistricts[x.dim_org_hierarchy_key] : ~IsNull(n)}}

\* GROUP BY doh.district_name with COUNT(DISTINCT tracked_entity_instance_id),
\* ORDER BY deaths DESC.
get_measles_deaths_by_district(ev, attrs, failed, scan) ==
    LET jd == joined_data(ev, attrs)
        DistrictOf(r) == Get(CHOOSE n \in OrgUnitDistricts[r.dim_org_hierarchy_key] : TRUE)
        rows == {[district |-> d,
                  deaths |-> Cardinality({r.tracked_entity_instance_id : r \in
                                {x \in jd : DistrictOf(x) = d}})] :
                    d \in {DistrictOf(r) : r \in jd}}
        pos == [r \in rows |-> Cardinality({x \in rows :
                    \/ x.deaths > r.deaths
                    \/ x.deaths = r.deaths /\ ScanBefore(x.district, r.district, scan)}) + 1]
    IN IF failed THEN <<>>
       ELSE [i \in 1..Cardinality(rows) |-> CHOOSE r \in rows : pos[r] = i]

GetMeaslesDeathsByDistrict(failed) ==
    /\ \E scan \in ScanOrders :
          result' = get_measles_deaths_by_district(events, attributes, failed, scan)
    /\ call' = Val([fn |-> "get_measles_deaths_by_district", failed |-> failed])
    /\ UNCHANGED <<cache_data, clock, attributes, events, query_params, current_year, params, date_conditions>>


(* get_measles_attack_rates_by_age_sex, called without parameters *)

AttackRateGroups ==
    <<"0-4", "5-14", "15-19", "20-24", "25-29", "30-34", "35-39", "40-44",
      "45-49", "50+", "Unknown">>

\* case_counts: the join rows by age group, those of a female text and those
\* of a male text counted.
case_counts(ev, attrs) ==
    LET rows == {[row |-> j,
                  age_group |-> age_group_attack_rates(AttributeValue(j.age_years)),
                  sex_category |-> sex_category(AttributeValue(j.sex))] :
                    j \in AgeSexJoin(ev, attrs)}
        groups == GroupsInOrder(AttackRateGroups, {r.age_group : r \in rows})
    IN [i \in 1..Len(groups) |->
          [age_group |-> groups[i],
           female_cases |-> Cardinality({r \in rows :
               r.age_group = groups[i] /\ r.sex_category = "Female"}),
           male_cases |-> Cardinality({r \in rows :
               r.age_group = groups[i] /\ r.sex_category = "Male"})]]

\* The rate gone wrong: cut off after the second decimal.
AttackRateTruncated(cases, total) ==
    IF total = 0 THEN Null ELSE Val((cases * 10000000) \div total)

\* (cases * 100000 / total).round(2), in hundredths, a tie to the even
\* neighbour; NaN, here <<>>, for the quotient 0 / 0 of a sex without cases.
AttackRate(cases, total) ==
    IF total = 0 THEN Null
    ELSE LET q == (cases * 10000000) \div total
             r == (cases * 10000000) % total
         IN Val(IF 2 * r > total \/ (2 * r = total /\ q % 2 = 1) THEN q + 1 ELSE q)

WithAttackRates(df) ==
    LET female_sum == SumValues({<<i, df[i].female_cases>> : i \in 1..Len(df)})
        male_sum == SumValues({<<i, df[i].male_cases>> : i \in 1..Len(df)})
    IN [i \in 1..Len(df) |->
          [age_group |-> df[i].age_group,
           female_cases |-> df[i].female_cases,
           male_cases |-> df[i].male_cases,
           female_attack_rate |-> AttackRate(df[i].female_cases, female_sum),
           male_attack_rate |-> AttackRate(df[i].male_cases, male_sum)]]

\* The placeholder table of get_measles_attack_rates_by_age_sex.
AttackRatesPlaceholder ==
    LET female_cases_data == <<12, 8, 15, 10, 6, 4, 3, 2, 1, 2>>
        male_cases_data == <<10, 12, 18, 8, 5, 3, 2, 1, 1, 1>>
    IN WithAttackRates([i \in 1..Len(female_cases_data) |->
          [age_group |-> AttackRateGroups[i],
           female_cases |-> female_cases_data[i],
           male_cases |-> male_cases_data[i]]])

get_measles_attack_rates_by_age_sex(ev, attrs, failed) ==
    LET df == case_counts(ev, attrs)
    IN IF failed \/ df = <<>> THEN AttackRatesPlaceholder ELSE WithAttackRates(df)

GetMeaslesAttackRatesByAgeSex(failed) ==
    /\ result' = get_measles_attack_rates_by_age_sex(events, attributes, failed)
    /\ call' = Val([fn |-> "get_measles_attack_rates_by_age_sex", failed |-> failed])
    /\ UNCHANGED <<cache_data, clock, attributes, events, query_params, current_year, params, date_conditions>>

(* The case scenario: up to NumEntities tracked entities, one seeded event   *)
(* each in a district of its own, seeded age and sex records for the first   *)
(* two, then up to MaxRecords further attribute records and MaxExtraCases    *)
(* further events, and one call of a fetcher.                                *)

NumEntities == 3
MaxRecords == 2
MaxExtraCases == 1

SeededAttributes(n) ==
    {a \in {AttributeRow(1, AgeAttribute.attribute_id, AgeAttribute.display_name, <<"3">>),
            AttributeRow(1, SexAttribute.attribute_id, SexAttribute.display_name, <<"M", "a", "l", "e">>),
            AttributeRow(2, AgeAttribute.attribute_id, AgeAttribute.display_name, <<"7">>),
            AttributeRow(2, SexAttribute.attribute_id, SexAttribute.display_name, <<"F", "e", "m", "a", "l", "e">>)} :
        a.entity_id <= n}

AgeTexts ==
    {<<"4">>, <<"2", "5">>, <<"3", " ", "m", "o", "n", "t", "h", "s">>,
     <<"2", "5", " ", "y", "e", "a", "r", "s">>, <<"a", "b", "c">>}
SexTexts == {<<"m", "a", "l", "e">>, <<"F", "E", "M", "A", "L", "E">>, <<"t", "r", "a", "n", "s", "m", "a", "l", "e">>, <<"M">>}
OutcomeTexts == {<<"D", "e", "a", "d">>, <<"D", "i", "e", "d">>, <<"Y", "e", "s">>, <<"A", "l", "i", "v", "e">>}

\* The attribute records the upstream ETL can add for an entity.
RecordsOf(entity) ==
    {AttributeRow(entity, AgeAttribute.attribute_id, AgeAttribute.display_name, v) :
        v \in AgeTexts}
    \cup {AttributeRow(entity, SexAttribute.attribute_id, SexAttribute.display_name, v) :
        v \in SexTexts}
    \cup {AttributeRow(entity, k.attribute_id, k.display_name, v) :
        k \in {OutcomeAttribute, DeathAttribute}, v \in OutcomeTexts}

Entities == {e.tracked_entity_instance_id : e \in events}

InitCases ==
    /\ cache_data = {}
    /\ clock = 0
    /\ \E n \in 0..NumEntities :
          /\ events = {CaseEvent(WeekDate(3), t, 0, t) : t \in 1..n}
          /\ attributes = SeededAttributes(n)
    /\ call = Null
    /\ result = Null
    /\ query_params = Null
    /\ current_year = 2026
    /\ params = Null
    /\ date_conditions = Null

\* The upstream ETL adds an attribute record of a tracked entity.
IngestAttribute ==
    /\ IsNull(call)
    /\ Cardinality(attributes \ SeededAttributes(NumEntities)) < MaxRecords
    /\ \E t \in Entities : \E a \in RecordsOf(t) :
          /\ a \notin attributes
          /\ attributes' = attributes \cup {a}
    /\ UNCHANGED <<cache_data, clock, events, call, result, query_params, current_year, params, date_conditions>>

\* The upstream ETL adds a later event of a tracked entity, in the org unit of
\* its first event or in the second org unit of the first district.
IngestCase ==
    /\ IsNull(call)
    /\ Cardinality(ExtraEvents) < MaxExtraCases
    /\ \E t \in Entities : \E k \in {t, SecondUnitKey} :
          events' = events \cup
              {CaseEvent(WeekDate(4), k, Cardinality(ExtraEvents) + 1, t)}
    /\ UNCHANGED <<cache_data, clock, attributes, call, result, query_params, current_year, params, date_conditions>>

FetchAgeSexDistribution ==
    IsNull(call) /\ \E failed \in BOOLEAN : GetMeaslesAgeSexDistribution(failed)

FetchGenderDistribution ==
    IsNull(call) /\ \E failed \in BOOLEAN : GetMeaslesGenderDistribution(failed)

FetchWeeklyBySex ==
    IsNull(call) /\ \E failed \in BOOLEAN : GetMeaslesWeeklyBySex(failed)

FetchAttackRates ==
    IsNull(call) /\ \E failed \in BOOLEAN : GetMeaslesAttackRatesByAgeSex(failed)

FetchTotalDeaths ==
    IsNull(call) /\ \E failed \in BOOLEAN : GetMeaslesTotalDeaths(failed)

FetchDeathsByDistrict ==
    IsNull(call) /\ \E failed \in BOOLEAN : GetMeaslesDeathsByDistrict(failed)

NextCases ==
    \/ IngestAttribute
    \/ IngestCase
    \/ FetchAgeSexDistribution
    \/ FetchGenderDistribution
    \/ FetchWeeklyBySex
    \/ FetchAttackRates
    \/ FetchTotalDeaths
    \/ FetchDeathsByDistrict

SpecCases == InitCases /\ [][NextCases]_vars

-----------------------------------------------------------------------------
(* The rates of the choropleth maps, as functions of the district counts   *)
(* (district_cases and district_current_cases) the queries compute them    *)
(* from: the counts of a map range over 0..MaxCases, far more events than  *)
(* a warehouse of the other scenarios holds.                               *)

CumulativeFloor == 1000
CurrentFloor == 500
MaxCases == 1100

\* GREATEST gone wrong: the floor whatever the count.
FloorOnly(a, b) == b

\* GREATEST(a, b)
Greatest(a, b) == IF a >= b THEN a ELSE b

\* ROUND(cases * 100000.0 / GREATEST(cases, floor), 2), in hundredths: the
\* quotient by long division, the last digit rounded half away from zero.
RatePer100k(cases, floor) ==
    LET g == Greatest(cases, floor)
        r == ((cases % g) * 100000) % g
    IN (cases \div g) * 10000000 + (((cases % g) * 100000) \div g) * 100
           + RoundDiv(r * 100, g)

\* dict(zip(df['district_name'], df[rate])) of the rows WHERE cases > 0.
RatesByDistrict(counts, floor) ==
    [d \in {x \in DOMAIN counts : counts[x] > 0} |-> RatePer100k(counts[d], floor)]

get_measles_attack_rates_by_district_cumulative(counts) ==
    RatesByDistrict(counts, CumulativeFloor)

get_measles_current_case_rates_by_district_21_days(counts) ==
    RatesByDistrict(counts, CurrentFloor)

\* The counts of two districts: any count, beside its successor or a count
\* around a floor.
DistrictCounts ==
    UNION {{[d \in {<<DistrictNames[1]>>, <<DistrictNames[2]>>} |->
                IF d = <<DistrictNames[1]>> THEN a ELSE b] :
              b \in {a + 1, CurrentFloor - 1, CurrentFloor,
                     CumulativeFloor - 1, CumulativeFloor}} :
           a \in 0..MaxCases}

GetMeaslesAttackRatesByDistrictCumulative ==
    /\ IsNull(call)
    /\ \E counts \in DistrictCounts :
          /\ result' = get_measles_attack_rates_by_district_cumulative(counts)
          /\ call' = Val([fn |-> "get_measles_attack_rates_by_district_cumulative",
                          counts |-> counts, floor |-> CumulativeFloor])
    /\ UNCHANGED <<cache_data, clock, attributes, events, query_params, current_year, params, date_conditions>>

GetMeaslesCurrentCaseRatesByDistrict21Days ==
    /\ IsNull(call)
    /\ \E counts \in DistrictCounts :
          /\ result' = get_measles_current_case_rates_by_district_21_days(counts)
          /\ call' = Val([fn |-> "get_measles_current_case_rates_by_district_21_days",
                          counts |-> counts, floor |-> CurrentFloor])
    /\ UNCHANGED <<cache_data, clock, attributes, events, query_params, current_year, params, date_conditions>>

InitRates ==
    /\ cache_data = {}
    /\ clock = 0
    /\ events = {}
    /\ attributes = {}
    /\ call = Null
    /\ result = Null
    /\ query_params = Null
    /\ current_year = 2026
    /\ params = Null
    /\ date_conditions = Null

NextRates ==
    \/ GetMeaslesAttackRatesByDistrictCumulative
    \/ GetMeaslesCurrentCaseRatesByDistrict21Days

SpecRates == InitRates /\ [][NextRates]_vars

-----------------------------------------------------------------------------
(* db_retry: the wrapper of a decorated function.  call is the decoration   *)
(* of the invocation under way, result the locals of the wrapper: retries,  *)
(* the invocations of func made, the sleeps taken, and how it ended.        *)

MaxRetriesArg == 4
DelayArgs == {1, 2}
BackoffArgs == {1, 2, 3}

RECURSIVE Power(_, _)
\* base ** exponent
Power(base, exponent) == IF exponent <= 0 THEN 1 ELSE base * Power(base, exponent - 1)

\* The wait gone wrong: the exponent is retries instead of retries - 1.
WaitTimeLate(delay, backoff, retries) == delay * Power(backoff, retries)

\* wait_time = delay * (backoff ** (retries - 1))
WaitTime(delay, backoff, retries) == delay * Power(backoff, retries - 1)

\* wrapper(*args, **kwargs) is entered: retries = 0.
RetryEnter ==
    /\ IsNull(call)
    /\ \E m \in 0..MaxRetriesArg : \E d \in DelayArgs : \E b \in BackoffArgs :
          call' = Val([fn |-> "db_retry", max_retries |-> m, delay |-> d, backoff |-> b])
    /\ result' = [retries |-> 0, invocations |-> 0, sleeps |-> <<>>,
                  outcome |-> "running", value |-> Null]
    /\ UNCHANGED <<cache_data, clock, attributes, events, query_params, current_year, params, date_conditions>>

\* One turn of while retries < max_retries: func is invoked and returns, its
\* value being the number of the invocation, or raises; a raise counts, is
\* re-raised when it is the last allowed, and is slept on otherwise.
RetryAttempt ==
    /\ ~IsNull(call) /\ Get(call).fn = "db_retry"
    /\ result.outcome = "running"
    /\ result.retries < Get(call).max_retries
    /\ \E raises \in BOOLEAN :
          LET n == result.invocations + 1
              retries == result.retries + 1
          IN result' =
                IF ~raises
                THEN [result EXCEPT !.invocations = n, !.outcome = "returned",
                                    !.value = Val(n)]
                ELSE IF retries = Get(call).max_retries
                THEN [result EXCEPT !.invocations = n, !.retries = retries,
                                    !.outcome = "raised"]
                ELSE [result EXCEPT !.invocations = n, !.retries = retries,
                                    !.sleeps = Append(@, WaitTime(Get(call).delay,
                                                        Get(call).backoff, retries))]
    /\ UNCHANGED <<cache_data, clock, attributes, events, call, query_params, current_year, params, date_conditions>>

\* The loop is left without a turn taken or left over: return None.
RetryExit ==
    /\ ~IsNull(call) /\ Get(call).fn = "db_retry"
    /\ result.outcome = "running"
    /\ result.retries >= Get(call).max_retries
    /\ result' = [result EXCEPT !.outcome = "returned"]
    /\ UNCHANGED <<cache_data, clock, attributes, events, call, query_params, current_year, params, date_conditions>>

(* get_hierarchical_locations, wrapped by db_retry(max_retries=3, delay=2, backoff=2) *)

LocationsMaxRetries == 3
LocationsDelay == 2
LocationsBackoff == 2

\* The list returned from the except branch of the function.
LocationsFallback ==
    <<"National Level", "Regional Level", "District Level", "Subcounty Level",
      "Facility Level">>

\* The national level, then the district names of the hierarchy in order,
\* without NULL, 'Unknown' and '1 Test District'; every unit of the modelled
\* hierarchy is of leaf level 3.
HierarchicalLocations ==
    LET names == {Get(h.district_name) : h \in
                    {x \in dim_eidsr_org_hierarchy :
                        /\ ~IsNull(x.district_name)
                        /\ Get(x.district_name) # <<"Unknown">>
                        /\ Get(x.district_name) # <<"1", "Test", "District">>}}
        listed == SelectSeq(NamesInOrder, LAMBDA n : n \in names)
    IN <<"National Level (MOH)">> \o listed \o
       (IF Len(listed) = 0
        THEN <<"Abim District", "Adjumani District", "Kampala District">>
        ELSE <<>>)

\* The body of the function: a database error is caught by its own except
\* branch, so the call ends by returning on every path.
get_hierarchical_locations(failed) ==
    [raised |-> FALSE, value |-> IF failed THEN LocationsFallback ELSE HierarchicalLocations]

\* wrapper(*args, **kwargs) of the decorated function is entered.
LocationsEnter ==
    /\ IsNull(call)
    /\ call' = Val([fn |-> "get_hierarchical_locations",
                    max_retries |-> LocationsMaxRetries,
                    delay |-> LocationsDelay, backoff |-> LocationsBackoff])
    /\ result' = [retries |-> 0, invocations |-> 0, sleeps |-> <<>>,
                  outcome |-> "running", value |-> Null]
    /\ UNCHANGED <<cache_data, clock, attributes, events, query_params, current_year, params, date_conditions>>

\* One turn of the wrapper's loop around get_hierarchical_locations, the
\* database failing or not during the query.
LocationsAttempt ==
    /\ ~IsNull(call) /\ Get(call).fn = "get_hierarchical_locations"
    /\ result.outcome = "running"
    /\ result.retries < Get(call).max_retries
    /\ \E failed \in BOOLEAN :
          LET r == get_hierarchical_locations(failed)
              n == result.invocations + 1
              retries == result.retries + 1
          IN result' =
                IF ~r.raised
                THEN [result EXCEPT !.invocations = n, !.outcome = "returned",
                                    !.value = Val(r.value)]
                ELSE IF retries = Get(call).max_retries
                THEN [result EXCEPT !.invocations = n, !.retries = retries,
                                    !.outcome = "raised"]
                ELSE [result EXCEPT !.invocations = n, !.retries = retries,
                                    !.sleeps = Append(@, WaitTime(Get(call).delay,
                                                        Get(call).backoff, retries))]
    /\ UNCHANGED <<cache_data, clock, attributes, events, call, query_params, current_year, params, date_conditions>>

NextRetry ==
    RetryEnter \/ RetryAttempt \/ RetryExit \/ LocationsEnter \/ LocationsAttempt

SpecRetry == InitRates /\ [][NextRetry]_vars

-----------------------------------------------------------------------------
(* main(): the case fatality rate of the executive summary, over the cases  *)
(* scenario.                                                                *)

\* total_cases is the cumulative count of the first row of weekly_data, 0 for
\* the empty table of a failed query; cfr = total_deaths / total_cases * 100
\* if total_cases > 0 else 0, in hundredths of a percent, rounded down.
CaseFatalitySummary(weekly_failed, deaths_failed) ==
    LET weekly_table == IF weekly_failed THEN <<>>
                        ELSE get_measles_weekly_data(events, Null)
        total_deaths == get_measles_total_deaths(events, attributes, deaths_failed)
        total_cases == IF Len(weekly_table) > 0
                       THEN weekly_table[1].CumulativeConfirmedCases ELSE 0
        cfr == IF total_cases > 0 THEN (total_deaths * 10000) \div total_cases ELSE 0
    IN /\ result' = [total_cases |-> total_cases, deaths |-> total_deaths, cfr |-> cfr]
       /\ call' = Val([fn |-> "main", weekly_failed |-> weekly_failed,
                       deaths_failed |-> deaths_failed])
       /\ UNCHANGED <<cache_data, clock, attributes, events, query_params, current_year, params, date_conditions>>

FetchCaseFatality ==
    IsNull(call) /\ \E weekly_failed \in BOOLEAN : \E deaths_failed \in BOOLEAN :
        CaseFatalitySummary(weekly_failed, deaths_failed)

NextFatality == IngestAttribute \/ IngestCase \/ FetchCaseFatality

SpecFatality == InitCases /\ [][NextFatality]_vars

-----------------------------------------------------------------------------
(* get_district_reporting_metrics, called for the whole country: the seeded *)
(* history of the district scenarios, then events reported by the units     *)
(* that carry no district of their own.                                     *)

MaxExtraReporting == 2
UnnamedKeys == {UnknownKey, TestDistrictKey, UnknownDistrictKey, NullDistrictKey}

\* all_districts: the district names of the hierarchy, without NULL, 'Unknown'
\* and '1 Test District'.
all_districts ==
    {Get(h.district_name) : h \in
        {x \in dim_eidsr_org_hierarchy :
            /\ ~IsNull(x.district_name)
            /\ Get(x.district_name) # <<"Unknown">>
            /\ Get(x.district_name) # <<"1", "Test", "District">>}}

\* districts_with_cases: the district names joined to a measles event of the
\* period, WHERE doh.district_name IS NOT NULL.
districts_with_cases(me) ==
    UNION {{Get(n) : n \in {x \in OrgUnitDistricts[e.dim_org_hierarchy_key] : ~IsNull(x)}} :
              e \in me}

\* The dict of the four counts; zeros from the except branch.
get_district_reporting_metrics(ev, year, failed) ==
    LET measles_events == {e \in ev : IsNull(year) \/ ExtractYear(e.event_date) = Get(year)}
        with_cases == Cardinality(districts_with_cases(measles_events))
    IN IF failed
       THEN [total_districts |-> 0, districts_with_cases |-> 0,
             districts_reporting_recent |-> 0, districts_reporting_24h |-> 0]
       ELSE [total_districts |-> Cardinality(all_districts),
             districts_with_cases |-> with_cases,
             districts_reporting_recent |-> with_cases,
             districts_reporting_24h |-> with_cases]

GetDistrictReportingMetrics(year, failed) ==
    /\ result' = get_district_reporting_metrics(events, year, failed)
    /\ call' = Val([fn |-> "get_district_reporting_metrics", year |-> year,
                    failed |-> failed])
    /\ UNCHANGED <<cache_data, clock, attributes, events, query_params, current_year, params, date_conditions>>

FetchReportingMetrics ==
    IsNull(call) /\ \E year \in YearArgs : \E failed \in BOOLEAN :
        GetDistrictReportingMetrics(year, failed)

IngestReporting ==
    /\ IsNull(call)
    /\ Cardinality(ExtraEvents) < MaxExtraReporting
    /\ \E k \in UnnamedKeys : Ingest(WeekDate(3), k)

NextReporting == IngestReporting \/ FetchReportingMetrics

SpecReporting == InitDistrict /\ [][NextReporting]_vars

-----------------------------------------------------------------------------
(* st.cache_data(ttl=300) around get_measles_cases_last_24h: the page is    *)
(* rendered again and again while time passes, events arrive and the        *)
(* database fails or answers.                                               *)

CacheTtl == 300
CacheTick == 100
MaxClock == 500
MaxCacheEvents == 2

\* The number of measles events from the day before the latest event date
\* on; 0 from the except branch.
get_measles_cases_last_24h(ev, failed) ==
    IF failed \/ ev = {} THEN 0
    ELSE LET max_date == SetMax({e.event_date : e \in ev})
         IN Cardinality({e.event_id : e \in {x \in ev : x.event_date >= max_date - 1}})

\* An entry is served until ttl seconds have passed since it was stored.
Fresh(entry, now) == now < entry.stored_at + CacheTtl

\* A cache that keeps nothing.
CacheStoreSkipped(cache, key, value, now) == cache

\* The value a call returned becomes the entry of its key.
CacheStore(cache, key, value, now) ==
    {e \in cache : e.key # key}
    \cup {[key |-> key, value |-> value, stored_at |-> now]}

\* One call of the decorated get_measles_cases_last_24h(): a fresh entry is
\* returned without running the function; otherwise the function runs, the
\* database failing or not, and what it returns is stored.
CachedCasesLast24h ==
    /\ \E failed \in BOOLEAN :
          LET key == "get_measles_cases_last_24h"
              hits == {e \in cache_data : e.key = key /\ Fresh(e, clock)}
          IN IF hits # {}
             THEN /\ result' = (CHOOSE e \in hits : TRUE).value
                  /\ call' = Val([fn |-> key, failed |-> failed, queried |-> FALSE])
                  /\ UNCHANGED cache_data
             ELSE LET value == get_measles_cases_last_24h(events, failed)
                  IN /\ result' = value
                     /\ call' = Val([fn |-> key, failed |-> failed, queried |-> TRUE])
                     /\ cache_data' = CacheStore(cache_data, key, value, clock)
    /\ UNCHANGED <<clock, attributes, events, query_params, current_year, params, date_conditions>>

\* Time passes.
Tick ==
    /\ clock + CacheTick <= MaxClock
    /\ clock' = clock + CacheTick
    /\ UNCHANGED <<cache_data, attributes, events, call, result, query_params, current_year, params, date_conditions>>

IngestCache ==
    /\ Cardinality(ExtraEvents) < MaxCacheEvents
    /\ \E d \in DistrictDates : Ingest(d, 1)

NextCache == IngestCache \/ Tick \/ CachedCasesLast24h

SpecCache == InitRates /\ [][NextCache]_vars

-----------------------------------------------------------------------------

(* Properties of get_measles_weekly_data, under SpecWeekly *)

Called(fn) == ~IsNull(call) /\ Get(call).fn = fn

WeeklyCalled == Called("get_measles_weekly_data")
CumulativeMode == WeeklyCalled /\ IsNull(Get(call).year)
SingleYearMode == WeeklyCalled /\ ~IsNull(Get(call).year)

\* The events a call of get_measles_weekly_data aggregates: all measles
\* events, or those of the requested calendar year.
EventsInScope ==
    IF IsNull(Get(call).year) THEN events
    ELSE {e \in events : Calendar[e.event_date].year = Get(Get(call).year)}

\* The events of the bucket (y, w), and of the buckets up to and including it.
EventsOfBucket(y, w) ==
    {e \in EventsInScope :
        Calendar[e.event_date].year = y /\ Calendar[e.event_date].week = w}
EventsUpTo(y, w) ==
    {e \in EventsInScope :
        \/ Calendar[e.event_date].year < y
        \/ Calendar[e.event_date].year = y /\ Calendar[e.event_date].week <= w}
EventsBefore(y, w) == EventsUpTo(y, w) \ EventsOfBucket(y, w)

\* The weekly count of the bucket that immediately precedes (y, w) among the
\* buckets in scope, NULL when (y, w) is the first bucket.
PrecedingBucketCount(y, w) ==
    IF EventsBefore(y, w) = {} THEN Null
    ELSE LET last == CHOOSE e \in EventsBefore(y, w) :
                        \A f \in EventsBefore(y, w) :
                            \/ Calendar[f.event_date].year < Calendar[e.event_date].year
                            \/ /\ Calendar[f.event_date].year = Calendar[e.event_date].year
                               /\ Calendar[f.event_date].week <= Calendar[e.event_date].week
         IN Val(Cardinality(EventsOfBucket(Calendar[last.event_date].year,
                                           Calendar[last.event_date].week)))

\* C1: in both modes the percent change of every returned bucket is computed
\* against the weekly count of the immediately preceding chronological bucket
\* (the greatest (year, week) below the row's own), and is NULL when there is
\* no such bucket.
C1_PercentChangeAgainstPrecedingBucket ==
    WeeklyCalled =>
        \A i \in 1..Len(result) :
            LET prev == PrecedingBucketCount(result[i].Year, result[i].EpiWeek)
            IN result[i].PercentChange =
                 IF IsNull(prev) THEN Null
                 ELSE Val(RoundDiv((result[i].WeeklyConfirmedCases - Get(prev)) * 1000,
                                   Get(prev)))

\* C2: in single-year mode the cumulative count of every returned bucket is the
\* number of events of that year from the year's first bucket up to and
\* including the bucket, also when the year has more than 10 buckets.
C2_SingleYearCumulativeFromFirstBucket ==
    SingleYearMode =>
        \A i \in 1..Len(result) :
            result[i].CumulativeConfirmedCases =
                Cardinality(EventsUpTo(result[i].Year, result[i].EpiWeek))

\* C10: in cumulative (all-years) mode the cumulative count of every returned
\* bucket is the number of events of the whole history in buckets up to and
\* including it, not only of the 10 returned buckets.
C10_CumulativeOverAllHistory ==
    CumulativeMode =>
        \A i \in 1..Len(result) :
            result[i].CumulativeConfirmedCases =
                Cardinality(EventsUpTo(result[i].Year, result[i].EpiWeek))

\* The history has more buckets than are returned, and the oldest returned
\* bucket carries the cases of the buckets that were cut off.
C10_Witness ==
    /\ CumulativeMode
    /\ Len(result) = WeeklyLimit
    /\ Cardinality(all_weekly_data(events)) > WeeklyLimit
    /\ result[WeeklyLimit].CumulativeConfirmedCases >
           result[WeeklyLimit].WeeklyConfirmedCases

-----------------------------------------------------------------------------
(* Properties of the district table, under SpecDistrict *)

TopDistrictsCalled == Called("get_measles_top_10_districts")
SummaryCalled == Called("main")

\* The weekly table and the district table a call has produced.
WeeklyTable ==
    IF WeeklyCalled THEN result
    ELSE IF SummaryCalled THEN result.weekly_data ELSE <<>>
DistrictTable ==
    IF TopDistrictsCalled THEN result
    ELSE IF SummaryCalled THEN result.district_data ELSE <<>>

\* The filtered event set of the district table: all events, or those of the
\* requested year; the events of one district among them.
DistrictEventsInScope ==
    IF TopDistrictsCalled /\ ~IsNull(Get(call).year)
    THEN {e \in events : Calendar[e.event_date].year = Get(Get(call).year)}
    ELSE events
EventsOfDistrict(name) ==
    {e \in DistrictEventsInScope :
        Val(name) \in OrgUnitDistricts[e.dim_org_hierarchy_key]}

BucketOf(e) == <<Calendar[e.event_date].year, Calendar[e.event_date].week>>

\* The greatest (year, week) in which an event of the filtered set falls.
TrueLatestBucket ==
    CHOOSE b \in {BucketOf(e) : e \in DistrictEventsInScope} :
        \A e \in DistrictEventsInScope :
            \/ BucketOf(e)[1] < b[1]
            \/ BucketOf(e)[1] = b[1] /\ BucketOf(e)[2] <= b[2]

\* C3: 'Cases Last Epiweek' of every district of the table is the number of
\* its events in the latest epi-week bucket of the filtered events, the
\* greatest (year, week) pair in which a filtered event actually falls.
C3_CasesLastEpiweekInTrueLatestBucket ==
    \A i \in 1..Len(DistrictTable) :
        DistrictTable[i].CasesLastEpiweek =
            Cardinality({e \in EventsOfDistrict(DistrictTable[i].District) :
                            BucketOf(e) = TrueLatestBucket})

\* The district names no result may show.
ExcludedNames ==
    {<<"Unknown">>, <<"Unknown", "District">>, <<"1", "Test", "District">>}

\* The district names of the result of the call made.
ResultDistricts ==
    IF TopDistrictsCalled \/ SummaryCalled
    THEN {DistrictTable[i].District : i \in 1..Len(DistrictTable)}
    ELSE IF Called("get_district_total_proportions")
            \/ Called("get_district_weekly_proportions")
    THEN {result[i].district : i \in 1..Len(result)}
    ELSE IF Called("get_measles_cumulative_cases_by_district")
    THEN {result[i].district_name : i \in 1..Len(result)}
    ELSE {}

\* C6: no district-keyed result (top districts, total and weekly proportions,
\* choropleth mapping) holds a row for 'Unknown', 'Unknown District' or
\* '1 Test District'; a row without district name cannot be formed at all.
C6_NoExcludedDistrictInResults ==
    ResultDistricts \cap ExcludedNames = {}

\* C7: the proportions of a non-empty result of get_district_total_proportions
\* are all present and add up to 100.00, give or take the rounding of each
\* row to a hundredth, however many districts have cases.
C7_TotalProportionsSumTo100 ==
    (Called("get_district_total_proportions") /\ Len(result) > 0) =>
        /\ \A i \in 1..Len(result) : ~IsNull(result[i].proportion)
        /\ Abs(SumValues({<<i, Get(result[i].proportion)>> : i \in 1..Len(result)})
               - 10000) <= Len(result)

\* The districts the ranking chooses from: those with a name that is not
\* excluded and with a filtered event; and the total of one district.
RankedDistricts ==
    {n \in {Get(x) : x \in UNION {OrgUnitDistricts[e.dim_org_hierarchy_key] :
                                      e \in DistrictEventsInScope} \ {Null}} :
        n \notin ExcludedNames /\ ~Like(n, <<"Test", "District">>)}
TrueTotal(name) == Cardinality(EventsOfDistrict(name))

WeeklyPrevious(i) ==
    IF i = 1 THEN Null ELSE Val(WeeklyTable[i - 1].WeeklyConfirmedCases)

\* The previous-period count of a district is the number of its events in the
\* epi-week the query takes for the previous one.
DistrictPrevious(name) ==
    LET pew == previous_epi_week(latest_epi_week(
                   top_districts_measles_events(DistrictEventsInScope, Null)))
    IN Cardinality({e \in EventsOfDistrict(name) :
                       BucketOf(e) = <<pew.prev_year, pew.prev_week>>})

\* pct, in tenths of a percent, is NULL when prev is absent or zero and
\* otherwise (cur - prev) / prev * 100 rounded to one decimal.
IsPercentChangeOf(pct, cur, prev) ==
    IF IsNull(prev) \/ Get(prev) = 0 THEN IsNull(pct)
    ELSE /\ ~IsNull(pct)
         /\ 2 * Abs(Get(pct) * Get(prev) - (cur - Get(prev)) * 1000) <= Get(prev)

-----------------------------------------------------------------------------
(* Properties of the request parameters, under SpecParams *)

ParamsFetched == ~IsNull(params) /\ Called("get_district_total_proportions")

\* What the query string asks for.
year_from_url == Or(Get(query_params).year, Get(query_params).y)
month_from_url == Or(Get(query_params).month, Get(query_params).m)

YearGiven == TruthyText(year_from_url)
MonthGiven == TruthyText(month_from_url)
YearIsInteger == YearGiven /\ ~IsNull(ParseInt(Get(year_from_url)))
MonthIsAll == MonthGiven /\ Lower(Get(month_from_url)) = "all"

\* A month number outside 1..12, or a text that is neither a number nor 'all'
\* nor a month name.
MonthMalformed ==
    /\ MonthGiven
    /\ ~MonthIsAll
    /\ LET n == ParseInt(Get(month_from_url))
       IN IF IsNull(n) THEN IsNull(Lookup(month_map, Lower(Get(month_from_url))))
          ELSE Get(n) < 1 \/ Get(n) > 12

\* C4: a request with an integer year Y and with no month, or the month
\* 'all', makes the fetcher apply the condition year = Y and no other.
C4_YearOnlyConstraint ==
    (ParamsFetched /\ YearIsInteger /\ (~MonthGiven \/ MonthIsAll)) =>
        Get(date_conditions) =
            {[field |-> "YEAR", value |-> Get(ParseInt(Get(year_from_url)))]}

\* C5: a year that is not an integer puts no year condition on the events,
\* and a malformed month puts no month condition on them.
C5_MalformedInputUnfiltered ==
    ParamsFetched =>
        /\ (YearGiven /\ ~YearIsInteger) =>
              \A c \in Get(date_conditions) : c.field # "YEAR"
        /\ MonthMalformed =>
              \A c \in Get(date_conditions) : c.field # "MONTH"

-----------------------------------------------------------------------------
(* Further properties of get_measles_weekly_data, under SpecWeekly *)

\* Row i of the weekly table is of a chronologically later bucket than row j.
LaterRow(i, j) ==
    \/ WeeklyTable[i].Year > WeeklyTable[j].Year
    \/ /\ WeeklyTable[i].Year = WeeklyTable[j].Year
       /\ WeeklyTable[i].EpiWeek > WeeklyTable[j].EpiWeek

\* C11: in both modes, of any two returned buckets the chronologically later
\* one has a cumulative count at least as large as the earlier one.
C11_CumulativeMonotonic ==
    \A i \in 1..Len(WeeklyTable) : \A j \in 1..Len(WeeklyTable) :
        LaterRow(i, j) =>
            WeeklyTable[i].CumulativeConfirmedCases >=
                WeeklyTable[j].CumulativeConfirmedCases

\* An all-years table that spans a change of year, the first bucket of the
\* new year counting fewer cases than the last bucket of the old one.
C11_Witness ==
    /\ CumulativeMode
    /\ \E i \in 1..(Len(result) - 1) :
          /\ result[i].Year > result[i + 1].Year
          /\ result[i].WeeklyConfirmedCases < result[i + 1].WeeklyConfirmedCases
          /\ result[i].CumulativeConfirmedCases > result[i + 1].CumulativeConfirmedCases

\* The buckets an all-years table shows.
ReturnedBuckets == {<<result[i].Year, result[i].EpiWeek>> : i \in 1..Len(result)}

\* C12: the all-years table has at most 10 buckets and they are the most
\* recent ones: no event of a bucket left out is dated later than an event of
\* a bucket shown.
C12_MostRecentBucketsReturned ==
    CumulativeMode =>
        /\ Len(result) <= WeeklyLimit
        /\ \A e \in events : \A f \in events :
              (BucketOf(e) \notin ReturnedBuckets /\ BucketOf(f) \in ReturnedBuckets)
                  => e.event_date <= f.event_date


-----------------------------------------------------------------------------
(* Properties of the age, sex and outcome aggregates, under SpecCases *)

\* A call whose query ran and met at least one measles event.
Answered(fn) == Called(fn) /\ ~Get(call).failed /\ events # {}

\* The cases a call without parameters aggregates: the tracked entities with a
\* measles event.
DistinctCases == {e.tracked_entity_instance_id : e \in events}

AgeSexTotal ==
    SumValues({<<i, result[i].male_cases + result[i].female_cases
                      + result[i].unknown_cases>> : i \in 1..Len(result)})
GenderTotal == SumValues({<<i, result[i].cases>> : i \in 1..Len(result)})

\* C13: every case is counted once in the demographic aggregates, whatever the
\* number of age and sex records of its entity and of org units of its events:
\* the counts of the age groups of get_measles_age_sex_distribution, and those
\* of the sexes of get_measles_gender_distribution, add up to the number of
\* distinct cases.
C13_EachCaseCountedOnce ==
    /\ Answered("get_measles_age_sex_distribution") =>
          AgeSexTotal = Cardinality(DistinctCases)
    /\ Answered("get_measles_gender_distribution") =>
          GenderTotal = Cardinality(DistinctCases)


\* The rows of a table of get_measles_age_sex_distribution for an age group,
\* and the cases they count.
AgeGroupCount(g) ==
    SumValues({<<i, result[i].male_cases + result[i].female_cases
                      + result[i].unknown_cases>> :
                  i \in {x \in 1..Len(result) : result[x].age_group = g}})

\* The age group of an age text under the one rule: an all-digit text by its
\* number, a text naming months or weeks in the youngest band, a text with
\* embedded digits by those digits, anything else Unknown.
RuleAgeGroup(value) ==
    IF IsNull(value) THEN "Unknown"
    ELSE LET age == calculated_age(Get(value), <<current_year, 1, 1>>)
         IN IF IsNull(age) THEN "Unknown" ELSE FiveYearBand(Get(age))

\* C14: the age classification follows the same rule at every call site: each
\* age group of get_measles_age_sex_distribution counts the joined age records
\* that the rule puts into it, "3 months" in the youngest band and "25 years"
\* by its digits.
C14_AgeGroupsFollowRule ==
    Answered("get_measles_age_sex_distribution") =>
        \A i \in 1..Len(AgeSexGroups) :
            AgeGroupCount(AgeSexGroups[i]) =
                Cardinality({j \in AgeSexJoin(events, attributes) :
                    RuleAgeGroup(AttributeValue(j.age_years)) = AgeSexGroups[i]})


\* The events of a week whose entity has a sex record of the given sex under
\* the substring rule: the text contains "female", or contains "male" and not
\* "female", whatever its letter case.
EventsOfSex(week, sex) ==
    {e.event_id : e \in {x \in events :
        /\ DateTruncWeek(x.event_date) = week
        /\ \E a \in attributes :
              /\ a.entity_id = x.tracked_entity_instance_id
              /\ a.attribute_id = SexAttribute.attribute_id
              /\ sex_category(Val(a.attribute_value)) = sex}}

\* C15: the sex classification is the case-insensitive substring rule at every
\* call site: each week of get_measles_weekly_by_sex counts as male the events
\* with a sex text containing "male" and not "female", and as female those
\* with a text containing "female".
C15_SexBySubstringRule ==
    Answered("get_measles_weekly_by_sex") =>
        \A i \in 1..Len(result) :
            /\ result[i].male_cases =
                  Cardinality(EventsOfSex(result[i].week_starting, "Male"))
            /\ result[i].female_cases =
                  Cardinality(EventsOfSex(result[i].week_starting, "Female"))


\* The entities with an event in a district and an outcome record that tells a
\* death under the rule of get_measles_total_deaths: the lower-cased text
\* contains "death", "died" or "dead", or is "yes".
DeathsInDistrict(d) ==
    {e.tracked_entity_instance_id : e \in {x \in events :
        /\ Val(d) \in OrgUnitDistricts[x.dim_org_hierarchy_key]
        /\ \E a \in attributes :
              /\ a.entity_id = x.tracked_entity_instance_id
              /\ a.attribute_id = OutcomeAttribute.attribute_id
              /\ IsDeathAttribute(a.attribute_value)}}

\* The deaths a table of get_measles_deaths_by_district reports for a district.
ReportedDeaths(d) ==
    SumValues({<<i, result[i].deaths>> :
                  i \in {x \in 1..Len(result) : result[x].district = d}})

\* C16: every death count flags an outcome by the same test: the deaths by
\* district count the entities of the district whose outcome text contains
\* "death", "died" or "dead" or is "yes", as the total deaths do.
C16_DeathsBySameTest ==
    Answered("get_measles_deaths_by_district") =>
        \A k \in 1..NumDistricts :
            ReportedDeaths(<<DistrictNames[k]>>) =
                Cardinality(DeathsInDistrict(<<DistrictNames[k]>>))


AttackRatesCalled == Called("get_measles_attack_rates_by_age_sex")

FemaleTotal == SumValues({<<i, result[i].female_cases>> : i \in 1..Len(result)})
MaleTotal == SumValues({<<i, result[i].male_cases>> : i \in 1..Len(result)})

\* rate, in hundredths, is cases * 100000 / total rounded to two decimals.
IsRateOf(rate, cases, total) ==
    /\ ~IsNull(rate)
    /\ 2 * Abs(Get(rate) * total - cases * 10000000) <= total

\* The rates, in hundredths, add up to 100000 within the rounding of the rows.
AddUpTo100000(rates) ==
    /\ \A p \in rates : ~IsNull(p[2])
    /\ 2 * Abs(SumValues({<<p[1], Get(p[2])>> : p \in rates}) - 10000000)
          <= Cardinality(rates)

\* C17: in a table of get_measles_attack_rates_by_age_sex the rate of a sex in
\* an age group is its count times 100000 over the sum of the counts of that
\* sex in the table, rounded to two decimals, and the rates of a sex with at
\* least one case add up to 100000 within rounding.
C17_AttackRatesPerSexTotal ==
    AttackRatesCalled =>
        /\ FemaleTotal > 0 =>
              /\ \A i \in 1..Len(result) :
                    IsRateOf(result[i].female_attack_rate,
                             result[i].female_cases, FemaleTotal)
              /\ AddUpTo100000({<<i, result[i].female_attack_rate>> :
                                   i \in 1..Len(result)})
        /\ MaleTotal > 0 =>
              /\ \A i \in 1..Len(result) :
                    IsRateOf(result[i].male_attack_rate,
                             result[i].male_cases, MaleTotal)
              /\ AddUpTo100000({<<i, result[i].male_attack_rate>> :
                                   i \in 1..Len(result)})

\* A queried table in which the male cases, three in two age groups, get the
\* rates 66666.67 and 33333.33.
C17_Witness ==
    /\ Answered("get_measles_attack_rates_by_age_sex")
    /\ MaleTotal = 3
    /\ \E i \in 1..Len(result) : \E j \in 1..Len(result) :
          /\ result[i].male_cases = 2
          /\ result[i].male_attack_rate = Val(6666667)
          /\ result[j].male_cases = 1
          /\ result[j].male_attack_rate = Val(3333333)


\* The value of a call is empty: the count 0 of get_measles_total_deaths, a
\* table without rows of the others.
EmptyResult ==
    IF Called("get_measles_total_deaths") THEN result = 0 ELSE result = <<>>

\* C19: a fetcher whose query fails returns an empty result, never made-up
\* rows.
C19_EmptyResultOnFailure ==
    (~IsNull(call) /\ Get(call).failed) => EmptyResult

\* C20: a fetcher whose query succeeds without rows, the warehouse holding no
\* measles event, returns an empty table or the count 0.
C20_EmptyResultWithoutRows ==
    (~IsNull(call) /\ ~Get(call).failed /\ events = {}) => EmptyResult

\* C25: get_measles_age_sex_distribution returns the columns age_group,
\* male_cases, female_cases and unknown_cases on every path, rows found, zero
\* rows or a failed query, so that main() can read unknown_cases from every
\* table it receives.
C25_AgeSexColumnsOnEveryPath ==
    Called("get_measles_age_sex_distribution") =>
        \A i \in 1..Len(result) :
            DOMAIN result[i] = {"age_group", "male_cases", "female_cases", "unknown_cases"}

\* C26: the definition of get_measles_deaths_by_district in effect returns the
\* columns 'District' and 'Deaths' that main() reads for the deaths-by-district
\* chart, whenever the query returns at least one row.
C26_DeathsChartColumns ==
    (Called("get_measles_deaths_by_district") /\ Len(result) >= 1) =>
        \A i \in 1..Len(result) : {"District", "Deaths"} \subseteq DOMAIN result[i]

-----------------------------------------------------------------------------
(* Properties of the choropleth rates, under SpecRates *)

RatesCalled ==
    \/ Called("get_measles_attack_rates_by_district_cumulative")
    \/ Called("get_measles_current_case_rates_by_district_21_days")

\* C18: a choropleth rate, count * 100000 / max(count, floor) with floor 1000
\* for the cumulative map and 500 for the 21-day map, is at most 100000 for
\* every count of at least 1, does not decrease when the count grows, and is
\* exactly 100000 from the floor on.
C18_RateCappedAndMonotonic ==
    RatesCalled =>
        LET counts == Get(call).counts
            floor == Get(call).floor
        IN /\ DOMAIN result = {d \in DOMAIN counts : counts[d] >= 1}
           /\ \A d \in DOMAIN result :
                 /\ result[d] <= 10000000
                 /\ counts[d] >= floor => result[d] = 10000000
                 /\ \A e \in DOMAIN result :
                       counts[d] <= counts[e] => result[d] <= result[e]

\* The cumulative map with a district one case below the floor, at 99900.00,
\* and a district at the floor, at 100000.00.
C18_Witness ==
    /\ Called("get_measles_attack_rates_by_district_cumulative")
    /\ \E d \in DOMAIN result : \E e \in DOMAIN result :
          /\ Get(call).counts[d] = CumulativeFloor - 1
          /\ result[d] = 9990000
          /\ Get(call).counts[e] = CumulativeFloor
          /\ result[e] = 10000000


-----------------------------------------------------------------------------
(* Properties of get_measles_top_districts_epicurves, under SpecEpicurves *)

EpicurvesCalled == Called("get_measles_top_districts_epicurves")

\* C21: get_measles_top_districts_epicurves is all or nothing: when a
\* per-district query raises at any point of the loop the function returns the
\* empty list, never the districts appended before the failure; when none
\* raises it returns what the loop appended.
C21_EpicurvesAllOrNothing ==
    EpicurvesCalled =>
        IF Get(call).run.raised THEN result = <<>>
        ELSE result = Get(call).run.epicurve_data

\* A loop that raised after it had appended at least one district.
C21_Witness ==
    /\ EpicurvesCalled
    /\ Get(call).run.raised
    /\ Len(Get(call).run.epicurve_data) >= 1
    /\ result = <<>>


-----------------------------------------------------------------------------
(* Properties of a page render, under SpecPage *)

PageRendered == Called("main") /\ "rendered" \in DOMAIN result

Rendered == {result.rendered[i] : i \in 1..Len(result.rendered)}

\* C22: in one page render a failure in one aggregate keeps no other
\* aggregate off the page, a later one of the same section included: every
\* aggregate but the one that raised is rendered.
C22_FailureKeepsOthersRendered ==
    PageRendered =>
        \A a \in Aggregates : Val(a) # Get(call).raising => a \in Rendered


-----------------------------------------------------------------------------
(* Properties of db_retry, under SpecRetry *)

RetryCalled == Called("db_retry")

\* C23: a function wrapped by db_retry(max_retries, delay, backoff) is invoked
\* at most max_retries times; the wrapper returns the value of the first
\* invocation that does not raise, has slept delay * backoff^(k-1) after the
\* k-th failure for every k < max_retries, and after the max_retries-th
\* failure re-raises without another sleep.
C23_RetryAtMostMaxRetries ==
    RetryCalled =>
        LET c == Get(call)
        IN /\ result.invocations <= c.max_retries
           /\ result.outcome = "returned" /\ ~IsNull(result.value) =>
                 /\ result.value = Val(result.invocations)
                 /\ result.retries = result.invocations - 1
           /\ result.outcome = "raised" =>
                 /\ result.retries = c.max_retries
                 /\ result.invocations = c.max_retries
           /\ Len(result.sleeps) =
                 IF result.outcome = "raised" THEN result.retries - 1
                 ELSE result.retries
           /\ \A k \in 1..Len(result.sleeps) :
                 result.sleeps[k] = c.delay * Power(c.backoff, k - 1)

\* db_retry(3, 2, 2) after three failures: slept 2 s and 4 s, then re-raised.
C23_Witness ==
    /\ RetryCalled
    /\ Get(call).max_retries = 3 /\ Get(call).delay = 2 /\ Get(call).backoff = 2
    /\ result.outcome = "raised"
    /\ result.invocations = 3
    /\ result.sleeps = <<2, 4>>


-----------------------------------------------------------------------------
(* Properties of the summary figures, under SpecStats *)

SummaryStatsCalled == Called("get_measles_summary_stats")

\* The events of an org unit of the hierarchy dated inside the range a call
\* was given.
EventsInRange ==
    {e \in events :
        /\ OrgUnitDistricts[e.dim_org_hierarchy_key] # {}
        /\ ~IsNull(Get(call).start_date) => e.event_date >= Get(Get(call).start_date)
        /\ ~IsNull(Get(call).end_date) => e.event_date <= Get(Get(call).end_date)}

\* C24: a start_date and an end_date given to get_measles_summary_stats
\* restrict the events counted to those dated inside the range.
C24_DateRangeRestrictsCount ==
    SummaryStatsCalled =>
        result.total_cases = Cardinality({e.event_id : e \in EventsInRange})


\* C27: when the database fails during the query of get_hierarchical_locations,
\* the db_retry wrapper makes a second and a third attempt before the fallback
\* list is returned.
C27_LocationsRetriedThreeTimes ==
    (/\ Called("get_hierarchical_locations")
     /\ result.outcome = "returned"
     /\ Get(result.value) = LocationsFallback) =>
        result.invocations = LocationsMaxRetries


-----------------------------------------------------------------------------
(* Properties of the cached get_measles_cases_last_24h, under SpecCache *)

CasesLast24hCalled == Called("get_measles_cases_last_24h")

\* C28: a cached function whose query fails returns its fallback as a normal
\* result: the fallback is stored in the cache, and while less than the TTL has
\* passed since, every call is served the stored value without a query, even
\* when the database would answer.
C28_FallbackCachedUntilTtl ==
    [][(CasesLast24hCalled' /\ clock' = clock /\ events' = events) =>
        /\ (Get(call').queried /\ Get(call').failed) =>
              /\ result' = 0
              /\ [key |-> "get_measles_cases_last_24h", value |-> 0,
                  stored_at |-> clock] \in cache_data'
        /\ \A e \in cache_data :
              clock < e.stored_at + CacheTtl =>
                  /\ result' = e.value
                  /\ ~Get(call').queried
                  /\ cache_data' = cache_data]_vars

\* The fallback 0 is served from the cache, without a query, to a call made
\* while the database holds measles events and answers.
C28_Witness ==
    /\ CasesLast24hCalled
    /\ ~Get(call).queried
    /\ ~Get(call).failed
    /\ result = 0
    /\ get_measles_cases_last_24h(events, FALSE) > 0


-----------------------------------------------------------------------------
(* Properties of get_district_reporting_metrics, under SpecReporting *)

\* C29: in every result of get_district_reporting_metrics, districts_with_cases
\* is at most total_districts, so that the number of districts without cases
\* that main() computes, total_districts - districts_with_cases, is not negative.
C29_DistrictsWithCasesWithinTotal ==
    Called("get_district_reporting_metrics") =>
        /\ result.districts_with_cases <= result.total_districts
        /\ result.total_districts - result.districts_with_cases >= 0


-----------------------------------------------------------------------------
(* Properties of the case fatality rate, under SpecFatality *)

FatalityCalled == Called("main")

====
